---- MODULE Spec2Model ----
(***************************************************************************)
(* A model of the opencode-history resolution and reconstruction engine:   *)
(* shared/history.ts (the library used by the plugins), typescript/index.ts*)
(* (the command-line variant) and diffs.sh (the shell variant).            *)
(*                                                                         *)
(* The program keeps no state of its own.  Its state is the storage it     *)
(* reads (message, part, session and snapshot roots), the working trees,   *)
(* the current directory, and, for the interactive revert, the position of *)
(* the run.  Strings that the code tests character by character (ids,      *)
(* file names, paths) are sequences of one-character strings.              *)
(***************************************************************************)
EXTENDS Integers, Sequences, FiniteSets, TLC

(***************************************************************************)
(* Strings                                                                 *)
(***************************************************************************)
Lower == {"a","b","c","d","e","f","g","h","i","j","k","l","m",
          "n","o","p","q","r","s","t","u","v","w","x","y","z"}
Upper == {"A","B","C","D","E","F","G","H","I","J","K","L","M",
          "N","O","P","Q","R","S","T","U","V","W","X","Y","Z"}
Digit == {"0","1","2","3","4","5","6","7","8","9"}
Space == {" ", "\t"}

startsWith(s, prefix) ==
    /\ Len(s) >= Len(prefix)
    /\ SubSeq(s, 1, Len(prefix)) = prefix

endsWith(s, suffix) ==
    /\ Len(s) >= Len(suffix)
    /\ SubSeq(s, Len(s) - Len(suffix) + 1, Len(s)) = suffix

DotJson == <<".", "j", "s", "o", "n">>
SesPrefix == <<"s", "e", "s", "_">>

\* name.replace(/\.json$/, "")
stripJson(name) ==
    IF endsWith(name, DotJson) THEN SubSeq(name, 1, Len(name) - Len(DotJson)) ELSE name

\* /^[A-Za-z0-9._-]+$/
isValidMessageId(msgId) ==
    /\ Len(msgId) > 0
    /\ \A i \in 1..Len(msgId) : msgId[i] \in Lower \cup Upper \cup Digit \cup {".", "_", "-"}

\* /^ses_[A-Za-z0-9_-]+$/
isValidSessionId(sessionId) ==
    /\ startsWith(sessionId, SesPrefix)
    /\ Len(sessionId) > Len(SesPrefix)
    /\ \A i \in (Len(SesPrefix) + 1)..Len(sessionId) :
          sessionId[i] \in Lower \cup Upper \cup Digit \cup {"_", "-"}

RECURSIVE trimLeft(_)
trimLeft(s) == IF s # <<>> /\ Head(s) \in Space THEN trimLeft(Tail(s)) ELSE s

RECURSIVE trimRight(_)
trimRight(s) ==
    IF s # <<>> /\ s[Len(s)] \in Space THEN trimRight(SubSeq(s, 1, Len(s) - 1)) ELSE s

\* String.prototype.trim
trim(s) == trimRight(trimLeft(s))

(***************************************************************************)
(* JSON values as the code reads them                                      *)
(***************************************************************************)
Str(s) == [kind |-> "string", val |-> s]
Num(digits) == [kind |-> "number", val |-> digits]
NotAString == Num(<<"7">>)
Undefined == [kind |-> "undefined", val |-> <<>>]

\* "created" stands for the nested time.created of a message file.
Fields == {"type", "hash", "tool", "sessionID", "created", "title", "projectID", "directory"}
NoFields == [f \in Fields |-> Undefined]

\* An object with the given fields set and every other field missing.
Obj(fields) == [f \in Fields |-> IF f \in DOMAIN fields THEN fields[f] ELSE Undefined]

\* What a failed read or parse gives: null.
JsonNull == [isNull |-> TRUE, obj |-> NoFields]

\* try { JSON.parse(readFileSync(path)) } catch { null }
safeReadJson(file) ==
    IF file.kind = "file" /\ file.valid
    THEN [isNull |-> FALSE, obj |-> file.data]
    ELSE JsonNull

\* data?.field
Field(data, f) == IF data.isNull THEN Undefined ELSE data.obj[f]

\* typeof v === "string"
isString(v) == v.kind = "string"

PatchType == <<"p", "a", "t", "c", "h">>
ToolType == <<"t", "o", "o", "l">>

(***************************************************************************)
(* State                                                                   *)
(***************************************************************************)
VARIABLES
    messageRoot,   \* storage/message: sequence of entries in enumeration order
    partRoot,      \* storage/part: sequence of entries in enumeration order
    sessionRoot,   \* storage/session: sequence of entries in enumeration order
    snapshotRoot,  \* snapshot: sequence of entries (one git object store each)
    dirs,          \* directory path -> [exists, tree]: the working trees
    cwd,           \* the process's current directory
    call,          \* the last library call: its arguments, result and subprocesses
    run,           \* the revert run in progress: position, locals, console output
    peers          \* two revert runs started side by side in one working tree

disk == <<messageRoot, partRoot, sessionRoot, snapshotRoot, dirs>>
vars == <<messageRoot, partRoot, sessionRoot, snapshotRoot, dirs, cwd, call, run, peers>>

(***************************************************************************)
(* Storage Index                                                           *)
(***************************************************************************)
\* A directory handle: found or not, and its entries.
NoDir == [found |-> FALSE, kind |-> "none", readable |-> FALSE, searchable |-> FALSE,
          entries |-> <<>>]

RECURSIVE lookup(_, _)
lookup(entries, name) ==
    IF entries = <<>> THEN NoDir
    ELSE IF Head(entries).name = name
         THEN [found |-> TRUE, kind |-> Head(entries).kind,
               readable |-> Head(entries).kind = "dir" /\ Head(entries).readable,
               searchable |-> Head(entries).kind = "dir" /\ Head(entries).searchable,
               entries |-> IF Head(entries).kind = "dir" THEN Head(entries).entries ELSE <<>>]
         ELSE lookup(Tail(entries), name)

RootDir(entries) == [found |-> TRUE, kind |-> "dir", readable |-> TRUE, searchable |-> TRUE,
                     entries |-> entries]

\* fs.existsSync
existsSync(handle) == handle.found

IsDirEntry(e) == e.kind = "dir"
IsFileEntry(e) == e.kind = "file"

\* readdirSync(dir) throws on a directory that is missing or may not be read.
readdirThrows(handle) == ~(handle.found /\ handle.kind = "dir" /\ handle.readable)

\* fs.statSync(path.join(dir, entry.name)) throws on any entry of a directory
\* that may be read but not searched.
statThrows(handle, kind) ==
    ~handle.searchable /\ \E n \in 1..Len(handle.entries) : handle.entries[n].kind = kind

\* readdirSync(dir).filter(isDirectory).map(stat); [] when anything throws
listDirectories(handle) ==
    IF readdirThrows(handle) \/ statThrows(handle, "dir") THEN <<>>
    ELSE SelectSeq(handle.entries, IsDirEntry)

\* The listing with nothing caught: what the directory holds, readable or not.
listFiles_uncaught(handle) == SelectSeq(handle.entries, IsFileEntry)

\* readdirSync(dir).filter(isFile).map(stat); [] when anything throws
listFiles(handle) ==
    IF readdirThrows(handle) \/ statThrows(handle, "file") THEN <<>>
    ELSE SelectSeq(handle.entries, IsFileEntry)

IsJsonName(e) == endsWith(e.name, DotJson)
IsSesName(e) == startsWith(e.name, SesPrefix)

\* The handle of an entry that a listing returned.
HandleOf(e) ==
    [found |-> TRUE, kind |-> e.kind,
     readable |-> e.kind = "dir" /\ e.readable,
     searchable |-> e.kind = "dir" /\ e.searchable,
     entries |-> IF e.kind = "dir" THEN e.entries ELSE <<>>]

RECURSIVE insertByMtime(_, _)
insertByMtime(sorted, e) ==
    IF sorted = <<>> THEN <<e>>
    ELSE IF Head(sorted).mtime >= e.mtime
         THEN <<Head(sorted)>> \o insertByMtime(Tail(sorted), e)
         ELSE <<e>> \o sorted

RECURSIVE sortFrom(_, _)
sortFrom(sorted, rest) ==
    IF rest = <<>> THEN sorted ELSE sortFrom(insertByMtime(sorted, Head(rest)), Tail(rest))

\* The sort with the comparison turned around: oldest first.
RECURSIVE insertByMtimeAsc(_, _)
insertByMtimeAsc(sorted, e) ==
    IF sorted = <<>> THEN <<e>>
    ELSE IF Head(sorted).mtime <= e.mtime
         THEN <<Head(sorted)>> \o insertByMtimeAsc(Tail(sorted), e)
         ELSE <<e>> \o sorted

RECURSIVE sortByMtimeAsc(_)
sortByMtimeAsc(entries) ==
    IF entries = <<>> THEN <<>>
    ELSE insertByMtimeAsc(sortByMtimeAsc(SubSeq(entries, 1, Len(entries) - 1)),
                          entries[Len(entries)])

\* entries.sort((a, b) => b.mtimeMs - a.mtimeMs): stable, newest first
sortByMtimeDesc(entries) == sortFrom(<<>>, entries)

\* slice with one directory too many.
slice_oneMore(s, limit) == SubSeq(s, 1, IF limit + 1 < Len(s) THEN limit + 1 ELSE Len(s))

\* Array.prototype.slice(0, limit) for limit >= 0
slice(s, limit) == SubSeq(s, 1, IF limit < Len(s) THEN limit ELSE Len(s))


\* The first index a loop with an early return, or head -1, stops at; 0 for none.
FirstIdx(I) == IF I = {} THEN 0 ELSE CHOOSE i \in I : \A j \in I : i <= j

\* path.join(dir, name) for a child name
join(handle, name) ==
    IF handle.found /\ handle.kind = "dir" /\ handle.searchable
    THEN lookup(handle.entries, name) ELSE NoDir

\* The entry behind a handle that exists, as safeReadJson needs it.
RECURSIVE entryOf(_, _)
entryOf(entries, name) ==
    IF Head(entries).name = name THEN Head(entries) ELSE entryOf(Tail(entries), name)

readChild(handle, name) ==
    IF existsSync(join(handle, name)) THEN safeReadJson(entryOf(handle.entries, name))
    ELSE JsonNull

(***************************************************************************)
(* Results: string | null                                                  *)
(***************************************************************************)
Null == [kind |-> "null", val |-> <<>>]

\* JavaScript truthiness of a string | null | undefined
Truthy(v) == v.kind = "string" /\ v.val # <<>>

(***************************************************************************)
(* Patch Locator                                                           *)
(***************************************************************************)
\* A patch part taken by its type alone, whatever its hash field holds.
IsPatchPart_typeOnly(file) == Field(safeReadJson(file), "type") = Str(PatchType)

IsPatchPart(file) ==
    LET data == safeReadJson(file)
    IN Field(data, "type") = Str(PatchType) /\ isString(Field(data, "hash"))

\* A tool part taken by its type alone, whatever its tool field holds.
IsToolPart_typeOnly(file) == Field(safeReadJson(file), "type") = Str(ToolType)

IsToolPart(file) ==
    LET data == safeReadJson(file)
    IN Field(data, "type") = Str(ToolType) /\ isString(Field(data, "tool"))

partFilesOf(msgId) == SelectSeq(listFiles(join(RootDir(partRoot), msgId)), IsJsonName)

getPatchHash(msgId) ==
    LET partFiles == partFilesOf(msgId)
        i == FirstIdx({k \in 1..Len(partFiles) : IsPatchPart(partFiles[k])})
    IN IF i = 0 THEN Null ELSE Field(safeReadJson(partFiles[i]), "hash")

RECURSIVE toolsOf(_)
toolsOf(partFiles) ==
    IF partFiles = <<>> THEN <<>>
    ELSE (IF IsToolPart(Head(partFiles))
          THEN <<Field(safeReadJson(Head(partFiles)), "tool").val>> ELSE <<>>)
         \o toolsOf(Tail(partFiles))

getMessageTools(msgId) == toolsOf(partFilesOf(msgId))

(***************************************************************************)
(* Resolver                                                                *)
(***************************************************************************)
sessionFileName(sessionId) == sessionId \o DotJson

getProjectIdFromSession(sessionId) ==
    IF sessionId = <<>> THEN Null
    ELSE
      LET projectDirs == listDirectories(RootDir(sessionRoot))
          Hit(projectDir) ==
              /\ existsSync(join(HandleOf(projectDir), sessionFileName(sessionId)))
              /\ Truthy(Field(readChild(HandleOf(projectDir), sessionFileName(sessionId)),
                              "projectID"))
          i == FirstIdx({k \in 1..Len(projectDirs) : Hit(projectDirs[k])})
      IN IF i = 0 THEN Null
         ELSE Field(readChild(HandleOf(projectDirs[i]), sessionFileName(sessionId)),
                    "projectID")

\* The session directories as enumerated, unsorted.
sessionDirsByRecency_enumerated ==
    SelectSeq(listDirectories(RootDir(messageRoot)), IsSesName)

sessionDirsByRecency ==
    sortByMtimeDesc(SelectSeq(listDirectories(RootDir(messageRoot)), IsSesName))

NoMessage == [found |-> FALSE, dir |-> <<>>, sessionId |-> <<>>]

findMessageFile(msgId) ==
    LET sessionDirs == sessionDirsByRecency
        Has(sessionDir) == existsSync(join(HandleOf(sessionDir), msgId \o DotJson))
        i == FirstIdx({k \in 1..Len(sessionDirs) : Has(sessionDirs[k])})
    IN IF i = 0 THEN NoMessage
       ELSE LET data == readChild(HandleOf(sessionDirs[i]), msgId \o DotJson)
            IN [found |-> TRUE,
                dir |-> sessionDirs[i].name,
                sessionId |-> IF isString(Field(data, "sessionID"))
                              THEN Field(data, "sessionID").val
                              ELSE sessionDirs[i].name]

getProjectIdFromMessage(msgId) ==
    IF msgId = <<>> THEN Null
    ELSE LET messageInfo == findMessageFile(msgId)
         IN IF ~messageInfo.found THEN Null
            ELSE getProjectIdFromSession(messageInfo.sessionId)

RECURSIVE jsonFilesOfAll(_)
jsonFilesOfAll(projectDirs) ==
    IF projectDirs = <<>> THEN <<>>
    ELSE SelectSeq(listFiles(HandleOf(Head(projectDirs))), IsJsonName)
         \o jsonFilesOfAll(Tail(projectDirs))

\* The lookup confined to the project's own subdirectory.
getProjectDirectory_ownOnly(projectId) ==
    LET own == SelectSeq(listFiles(join(RootDir(sessionRoot), projectId)), IsJsonName)
        Match(sessionFile) ==
            /\ Field(safeReadJson(sessionFile), "projectID") = Str(projectId)
            /\ isString(Field(safeReadJson(sessionFile), "directory"))
        i == FirstIdx({k \in 1..Len(own) : Match(own[k])})
    IN IF i = 0 THEN Null ELSE Field(safeReadJson(own[i]), "directory")

getProjectDirectory(projectId) ==
    LET projectDir == join(RootDir(sessionRoot), projectId)
        own == IF existsSync(projectDir)
               THEN SelectSeq(listFiles(projectDir), IsJsonName) ELSE <<>>
        candidateFiles ==
            IF own = <<>> THEN jsonFilesOfAll(listDirectories(RootDir(sessionRoot)))
            ELSE own
        Match(sessionFile) ==
            LET data == safeReadJson(sessionFile)
            IN Field(data, "projectID") = Str(projectId)
               /\ isString(Field(data, "directory"))
        i == FirstIdx({k \in 1..Len(candidateFiles) : Match(candidateFiles[k])})
    IN IF i = 0 THEN Null ELSE Field(safeReadJson(candidateFiles[i]), "directory")


(***************************************************************************)
(* Working trees, snapshot objects and the git subprocess                  *)
(***************************************************************************)
NumLines == 2

\* A line holds what the snapshots hold (0, 1) or what only someone else wrote (2).
Lines == 1..NumLines
Vals == {0, 1, 2}
Content == [Lines -> Vals]

FileA == <<"s", "/", "a">>
FileB == <<"s", "/", "b">>

\* The files of a tree, in the order git lists them.
TreeFiles == <<FileA, FileB>>
TreeFileSet == {TreeFiles[i] : i \in 1..Len(TreeFiles)}

H1 == <<"h", "1">>
H2 == <<"h", "2">>

Zeros == [l \in Lines |-> 0]

\* The snapshot store is content addressed: a hash names one tree everywhere.
ObjectTree(hash) ==
    IF hash = H1 THEN [f \in TreeFileSet |-> Zeros]
    ELSE [f \in TreeFileSet |-> IF f = FileB THEN [l \in Lines |-> IF l = 1 THEN 1 ELSE 0]
                                 ELSE Zeros]

\* A git pathspec names a file or a directory above it.
pathspecMatches(spec, file) == file = spec \/ startsWith(file, spec \o <<"/">>)

filePatch(file, old, new) ==
    [path |-> file,
     hunks |-> {[line |-> l, old |-> old[l], new |-> new[l]] : l \in {k \in Lines : old[k] # new[k]}}]

\* git diff <hash> [-- <path>]: the snapshot tree against the working tree
diffText(snap, work, pathFilter) ==
    LET Changed(file) ==
            /\ snap[file] # work[file]
            /\ Truthy(pathFilter) => pathspecMatches(pathFilter.val, file)
        files == SelectSeq(TreeFiles, Changed)
    IN [i \in 1..Len(files) |-> filePatch(files[i], snap[files[i]], work[files[i]])]

RECURSIVE joinLines(_)
joinLines(names) ==
    IF names = <<>> THEN <<>> ELSE Head(names) \o <<"\n">> \o joinLines(Tail(names))

\* git diff --name-only <hash>: one changed path per line
nameOnlyText(snap, work) ==
    LET Changed(file) == snap[file] # work[file]
    IN joinLines(SelectSeq(TreeFiles, Changed))

RECURSIVE splitFrom(_, _)
splitFrom(text, line) ==
    IF text = <<>> THEN <<line>>
    ELSE IF Head(text) = "\n"
         THEN <<(IF line # <<>> /\ line[Len(line)] = "\r"
                 THEN SubSeq(line, 1, Len(line) - 1) ELSE line)>>
              \o splitFrom(Tail(text), <<>>)
         ELSE splitFrom(Tail(text), Append(line, Head(text)))

NonEmpty(line) == line # <<>>

\* stdout.split(/\r?\n/).filter(Boolean)
splitLines(text) == SelectSeq(splitFrom(text, <<>>), NonEmpty)

\* A membership that takes a line starting with x for x.
includes_prefix(seq, x) == \E i \in 1..Len(seq) : startsWith(seq[i], x)

includes(seq, x) == \E i \in 1..Len(seq) : seq[i] = x

\* git apply -R: every hunk must match the file as it is, or nothing is written.
appliesInReverse(patch, tree) ==
    /\ patch # <<>>
    /\ \A i \in 1..Len(patch) : \A h \in patch[i].hunks : tree[patch[i].path][h.line] = h.new

\* The patch applied forward: the lines keep what the working tree has.
reverseApplied_forward(patch, tree) ==
    [f \in TreeFileSet |->
        [l \in Lines |->
            IF \E i \in 1..Len(patch) : patch[i].path = f /\ \E h \in patch[i].hunks : h.line = l
            THEN (CHOOSE h \in UNION {patch[i].hunks : i \in {k \in 1..Len(patch) : patch[k].path = f}} :
                      h.line = l).new
            ELSE tree[f][l]]]

reverseApplied(patch, tree) ==
    [f \in TreeFileSet |->
        [l \in Lines |->
            IF \E i \in 1..Len(patch) : patch[i].path = f /\ \E h \in patch[i].hunks : h.line = l
            THEN (CHOOSE h \in UNION {patch[i].hunks : i \in {k \in 1..Len(patch) : patch[k].path = f}} :
                      h.line = l).old
            ELSE tree[f][l]]]

DirP == <<"/", "p">>
DirQ == <<"/", "q">>
DirGone == <<"/", "x">>
DirPaths == {DirP, DirQ, DirGone, <<>>}

dirExists(path) == path \in DOMAIN dirs /\ dirs[path].exists

Fatal == <<"f", "a", "t", "a", "l">>

gitFailed == [status |-> 128, stdout |-> <<>>, stderr |-> Fatal]
gitOk(stdout) == [status |-> 0, stdout |-> stdout, stderr |-> <<>>]

\* spawnSync("git", args): args.gitDir is the name of the directory under the
\* snapshot root, args.workTree the --work-tree (Null: the current directory).
gitResult(args) ==
    LET repo == join(RootDir(snapshotRoot), args.gitDir)
        store == entryOf(snapshotRoot, args.gitDir)
        work == IF Truthy(args.workTree) THEN args.workTree.val ELSE cwd
    IN IF ~(repo.found /\ repo.kind = "dir") THEN gitFailed
       ELSE IF args.hash \notin store.objects THEN gitFailed
       ELSE IF args.cmd = "cat-file" THEN gitOk(<<>>)
       ELSE IF args.hash \in store.corrupt \/ ~dirExists(work) THEN gitFailed
       ELSE IF args.cmd = "name-only"
            THEN gitOk(nameOnlyText(ObjectTree(args.hash), dirs[work].tree))
            ELSE gitOk(diffText(ObjectTree(args.hash), dirs[work].tree, args.path))

runGit(args) == gitResult(args)

catFileArgs(snapshotDir, hash) ==
    [gitDir |-> snapshotDir, workTree |-> Null, cmd |-> "cat-file", hash |-> hash, path |-> Null]

\* An existence check that takes every hash for present.
gitCatFileExists_always(snapshotDir, hash) == TRUE

gitCatFileExists(snapshotDir, hash) == runGit(catFileArgs(snapshotDir, hash)).status = 0


(***************************************************************************)
(* shared/history.ts: getMessageDiff                                       *)
(***************************************************************************)
Text(t) == [kind |-> "text", val |-> t]

diffArgs(snapshotDir, workTree, hash, filePath) ==
    [gitDir |-> snapshotDir, workTree |-> workTree, cmd |-> "diff", hash |-> hash,
     path |-> filePath]

nameOnlyArgs(snapshotDir, workTree, hash) ==
    [gitDir |-> snapshotDir, workTree |-> workTree, cmd |-> "name-only", hash |-> hash,
     path |-> Null]

\* projectDir && fs.existsSync(projectDir) ? projectDir : no --work-tree
workTreeFor(projectDir) ==
    IF Truthy(projectDir) /\ dirExists(projectDir.val) THEN projectDir ELSE Null

\* result.stdout || null
stdoutOrNull(result) == IF result.stdout # <<>> THEN Text(result.stdout) ELSE Null

\* getMessageDiff without the check that the hash is in the snapshot.
getMessageDiff_noCatFile(messageId, filePath) ==
    IF ~isValidMessageId(messageId) THEN [ret |-> Null, git |-> <<>>]
    ELSE LET hash == getPatchHash(messageId) IN
    IF ~Truthy(hash) THEN [ret |-> Null, git |-> <<>>]
    ELSE LET projectId == getProjectIdFromMessage(messageId) IN
    IF ~Truthy(projectId) THEN [ret |-> Null, git |-> <<>>]
    ELSE LET snapshotDir == projectId.val IN
    IF ~existsSync(join(RootDir(snapshotRoot), snapshotDir)) THEN [ret |-> Null, git |-> <<>>]
    ELSE LET projectDir == getProjectDirectory(projectId.val)
             args == diffArgs(snapshotDir, workTreeFor(projectDir), hash.val, filePath)
         IN [ret |-> stdoutOrNull(runGit(args)), git |-> <<args>>]

\* The value returned and the git subprocesses run, in order.
getMessageDiff(messageId, filePath) ==
    IF ~isValidMessageId(messageId) THEN [ret |-> Null, git |-> <<>>]
    ELSE LET hash == getPatchHash(messageId) IN
    IF ~Truthy(hash) THEN [ret |-> Null, git |-> <<>>]
    ELSE LET projectId == getProjectIdFromMessage(messageId) IN
    IF ~Truthy(projectId) THEN [ret |-> Null, git |-> <<>>]
    ELSE LET snapshotDir == projectId.val IN
    IF ~existsSync(join(RootDir(snapshotRoot), snapshotDir)) THEN [ret |-> Null, git |-> <<>>]
    ELSE IF ~gitCatFileExists(snapshotDir, hash.val)
         THEN [ret |-> Null, git |-> <<catFileArgs(snapshotDir, hash.val)>>]
    ELSE LET projectDir == getProjectDirectory(projectId.val)
             args == diffArgs(snapshotDir, workTreeFor(projectDir), hash.val, filePath)
         IN [ret |-> stdoutOrNull(runGit(args)),
             git |-> <<catFileArgs(snapshotDir, hash.val), args>>]

(***************************************************************************)
(* shared/history.ts: getFileHistory                                       *)
(***************************************************************************)
NoTitle == <<"(", "n", "o", " ", "t", "i", "t", "l", "e", ")">>
Unknown == <<"(", "u", "n", "k", "n", "o", "w", "n", ")">>

RECURSIVE titleFrom(_, _, _)
titleFrom(projectDirs, sessionId, title) ==
    IF projectDirs = <<>> THEN title
    ELSE LET dir == HandleOf(Head(projectDirs))
             name == sessionFileName(sessionId)
         IN IF ~existsSync(join(dir, name))
            THEN titleFrom(Tail(projectDirs), sessionId, title)
            ELSE LET t == Field(readChild(dir, name), "title")
                 IN IF isString(t)
                    THEN IF t.val # NoTitle THEN t.val
                         ELSE titleFrom(Tail(projectDirs), sessionId, t.val)
                    ELSE titleFrom(Tail(projectDirs), sessionId, title)

getSessionTitle(sessionId) ==
    titleFrom(listDirectories(RootDir(sessionRoot)), sessionId, NoTitle)

\* Number(timestamp) is finite for a number; the date is printed to the minute.
formatTimestamp(timestamp) ==
    IF timestamp.kind = "number" THEN timestamp.val ELSE Unknown

messageFilesByRecency(sessionDir) ==
    sortByMtimeDesc(SelectSeq(listFiles(sessionDir), IsJsonName))

\* One message of the inner loop: the entries it adds and the subprocesses it runs.
historyOfMessage(sessionId, title, msgFile, filePath) ==
    LET msgId == stripJson(msgFile.name)
        hash == getPatchHash(msgId)
    IN IF ~Truthy(hash) THEN [ret |-> <<>>, git |-> <<>>]
    ELSE LET projectId == getProjectIdFromMessage(msgId) IN
    IF ~Truthy(projectId) THEN [ret |-> <<>>, git |-> <<>>]
    ELSE LET snapshotDir == projectId.val IN
    IF ~gitCatFileExists(snapshotDir, hash.val)
    THEN [ret |-> <<>>, git |-> <<catFileArgs(snapshotDir, hash.val)>>]
    ELSE LET projectDir == getProjectDirectory(projectId.val)
             args == nameOnlyArgs(snapshotDir, workTreeFor(projectDir), hash.val)
             filesChanged == splitLines(runGit(args).stdout)
         IN [ret |-> IF includes(filesChanged, filePath)
                     THEN <<[messageId |-> msgId,
                             sessionId |-> sessionId,
                             sessionTitle |-> title,
                             timestamp |-> formatTimestamp(Field(safeReadJson(msgFile), "created")),
                             hash |-> hash.val]>>
                     ELSE <<>>,
             git |-> <<catFileArgs(snapshotDir, hash.val), args>>]

\* history.push(...) in loop order: the entries and the subprocesses of one
\* iteration, followed by those of the iterations after it.
pushed(first, rest) == [ret |-> first.ret \o rest.ret, git |-> first.git \o rest.git]

RECURSIVE historyOfMessages(_, _, _, _)
historyOfMessages(sessionId, title, messageFiles, filePath) ==
    IF messageFiles = <<>> THEN [ret |-> <<>>, git |-> <<>>]
    ELSE pushed(historyOfMessage(sessionId, title, Head(messageFiles), filePath),
                historyOfMessages(sessionId, title, Tail(messageFiles), filePath))

RECURSIVE historyOfSessions(_, _)
historyOfSessions(sessionDirs, filePath) ==
    IF sessionDirs = <<>> THEN [ret |-> <<>>, git |-> <<>>]
    ELSE pushed(historyOfMessages(Head(sessionDirs).name,
                                  getSessionTitle(Head(sessionDirs).name),
                                  messageFilesByRecency(HandleOf(Head(sessionDirs))),
                                  filePath),
                historyOfSessions(Tail(sessionDirs), filePath))

getFileHistory(filePath, limit) ==
    historyOfSessions(slice(sessionDirsByRecency, limit), filePath)

(***************************************************************************)
(* shared/history.ts: getRecentSessions                                    *)
(***************************************************************************)
\* formatDate prints the directory's modification time to the minute.
getRecentSessions(limit) ==
    LET sessionDirs == slice(sessionDirsByRecency, limit)
    IN [i \in 1..Len(sessionDirs) |->
          [id |-> sessionDirs[i].name,
           title |-> getSessionTitle(sessionDirs[i].name),
           modified |-> sessionDirs[i].mtime,
           messageCount |-> Len(SelectSeq(listFiles(HandleOf(sessionDirs[i])), IsJsonName))]]

(***************************************************************************)
(* shared/history.ts: getSessionMessages                                   *)
(***************************************************************************)
\* The project is resolved once, from the session id; a session without one
\* has the empty snapshotDir and runs no git.
getSessionMessages(sessionId) ==
    IF ~isValidSessionId(sessionId) THEN [ret |-> <<>>, git |-> <<>>]
    ELSE LET sessionDir == join(RootDir(messageRoot), sessionId) IN
    IF ~existsSync(sessionDir) THEN [ret |-> <<>>, git |-> <<>>]
    ELSE LET projectId == getProjectIdFromSession(sessionId)
             HasHash(msgFile) == Truthy(getPatchHash(stripJson(msgFile.name)))
             withHash == SelectSeq(messageFilesByRecency(sessionDir), HasHash)
             hashOf(i) == getPatchHash(stripJson(withHash[i].name)).val
         IN [ret |-> [i \in 1..Len(withHash) |->
                        [id |-> stripJson(withHash[i].name),
                         timestamp |-> formatTimestamp(Field(safeReadJson(withHash[i]),
                                                             "created")),
                         hash |-> hashOf(i),
                         hasSnapshot |-> IF Truthy(projectId)
                                         THEN gitCatFileExists(projectId.val, hashOf(i))
                                         ELSE FALSE]],
             git |-> IF Truthy(projectId)
                     THEN [i \in 1..Len(withHash) |-> catFileArgs(projectId.val, hashOf(i))]
                     ELSE <<>>]


(***************************************************************************)
(* typescript/index.ts: agent_message_diff                                 *)
(***************************************************************************)
\* What the command printed: the message it ended on, the tools it listed,
\* and the standard output and standard error of its git diff.
agent_message_diff(msgId, filePath) ==
    LET Said(tag, tools, result, git) ==
            [ret |-> [said |-> tag, tools |-> tools, stdout |-> result.stdout,
                      stderr |-> result.stderr],
             git |-> git]
        quiet == gitOk(<<>>)
    IN IF msgId = <<>> THEN Said("usage", <<>>, quiet, <<>>)
    ELSE IF ~isValidMessageId(msgId) THEN Said("invalid message id", <<>>, quiet, <<>>)
    ELSE LET hash == getPatchHash(msgId) IN
    IF ~Truthy(hash) THEN Said("no file changes", getMessageTools(msgId), quiet, <<>>)
    ELSE LET projectId == getProjectIdFromMessage(msgId) IN
    IF ~Truthy(projectId) THEN Said("no project", <<>>, quiet, <<>>)
    ELSE LET snapshotDir == projectId.val IN
    IF ~existsSync(join(RootDir(snapshotRoot), snapshotDir))
    THEN Said("no snapshot directory", <<>>, quiet, <<>>)
    ELSE IF ~gitCatFileExists(snapshotDir, hash.val)
         THEN Said("snapshot not available", <<>>, quiet,
                   <<catFileArgs(snapshotDir, hash.val)>>)
    ELSE LET projectDir == getProjectDirectory(projectId.val)
             args == diffArgs(snapshotDir, workTreeFor(projectDir), hash.val, filePath)
         IN Said("diff", <<>>, runGit(args), <<catFileArgs(snapshotDir, hash.val), args>>)

(***************************************************************************)
(* diffs.sh: the resolvers of the shell variant                            *)
(***************************************************************************)
\* The characters in the order a glob sorts them.
Collation ==
    <<" ", "-", ".", "/", "0","1","2","3","4","5","6","7","8","9",
      "A","B","C","D","E","F","G","H","I","J","K","L","M",
      "N","O","P","Q","R","S","T","U","V","W","X","Y","Z", "_",
      "a","b","c","d","e","f","g","h","i","j","k","l","m",
      "n","o","p","q","r","s","t","u","v","w","x","y","z">>

rank(c) == CHOOSE i \in 1..Len(Collation) : Collation[i] = c

RECURSIVE nameBefore(_, _)
nameBefore(a, b) ==
    IF a = <<>> THEN b # <<>>
    ELSE IF b = <<>> THEN FALSE
    ELSE IF Head(a) = Head(b) THEN nameBefore(Tail(a), Tail(b))
    ELSE rank(Head(a)) < rank(Head(b))

RECURSIVE insertByName(_, _)
insertByName(sorted, e) ==
    IF sorted = <<>> THEN <<e>>
    ELSE IF nameBefore(e.name, Head(sorted).name) THEN <<e>> \o sorted
         ELSE <<Head(sorted)>> \o insertByName(Tail(sorted), e)

RECURSIVE globFrom(_, _)
globFrom(sorted, rest) ==
    IF rest = <<>> THEN sorted ELSE globFrom(insertByName(sorted, Head(rest)), Tail(rest))

\* The expansion of dir/*: every entry, sorted by name.
glob(entries) == globFrom(<<>>, entries)

NullText == <<"n", "u", "l", "l">>

\* jq -r '.field' of a parsed file: a string raw, a number printed, null for none.
jqRaw(v) == IF v.kind = "undefined" THEN NullText ELSE v.val

IsJsonFile(e) == e.kind = "file" /\ endsWith(e.name, DotJson)

\* jq 'select(.type == "patch")' passes the file
IsPatchTyped(file) == Field(safeReadJson(file), "type") = Str(PatchType)

\* find part/$msg_id -name "*.json" -exec jq -r 'select(.type == "patch") | .hash' | head -1
sh_patch_hash(msg_id) ==
    LET partDir == join(RootDir(partRoot), msg_id)
        found == IF partDir.found THEN SelectSeq(SelectSeq(partDir.entries, IsJsonFile), IsPatchTyped)
                 ELSE <<>>
    IN IF found = <<>> THEN <<>> ELSE jqRaw(Field(safeReadJson(found[1]), "hash"))

\* [ -z "$hash" ] || [ "$hash" = "null" ]
sh_no_hash(hash) == hash = <<>> \/ hash = NullText

\* for session_file in session/*/$session_id.json: the first regular file decides
_get_project_id_from_session(session_id) ==
    LET projectDirs == SelectSeq(glob(sessionRoot), IsDirEntry)
        Has(projectDir) ==
            join(HandleOf(projectDir), sessionFileName(session_id)).kind = "file"
        i == FirstIdx({k \in 1..Len(projectDirs) : Has(projectDirs[k])})
    IN IF i = 0 THEN <<>>
       ELSE LET data == readChild(HandleOf(projectDirs[i]), sessionFileName(session_id))
                projectID == Field(data, "projectID")
            IN IF data.isNull \/ projectID.kind = "undefined" THEN <<>> ELSE projectID.val

\* find message/ses_* -name "$msg_id.json" | head -1, then jq -r '.sessionID'
_get_project_id_from_message(msg_id) ==
    LET sessionDirs == SelectSeq(SelectSeq(glob(messageRoot), IsSesName), IsDirEntry)
        Has(sessionDir) == existsSync(join(HandleOf(sessionDir), msg_id \o DotJson))
        i == FirstIdx({k \in 1..Len(sessionDirs) : Has(sessionDirs[k])})
    IN IF i = 0 THEN <<>>
       ELSE LET data == readChild(HandleOf(sessionDirs[i]), msg_id \o DotJson)
                session_id == IF data.isNull THEN <<>> ELSE jqRaw(Field(data, "sessionID"))
            IN IF session_id = <<>> THEN <<>> ELSE _get_project_id_from_session(session_id)

\* find session -name "*.json" -exec jq -r 'select(.projectID == "$id") | .directory' | head -1
sh_project_dir(project_id) ==
    LET files == jsonFilesOfAll(listDirectories(RootDir(sessionRoot)))
        Match(file) == Field(safeReadJson(file), "projectID") = Str(project_id)
        i == FirstIdx({k \in 1..Len(files) : Match(files[k])})
    IN IF i = 0 THEN <<>> ELSE jqRaw(Field(safeReadJson(files[i]), "directory"))

(***************************************************************************)
(* Storage the program can find itself over                                *)
(***************************************************************************)
MaxTime == 2
MaxLimit == 3

SesA == SesPrefix \o <<"A">>
SesB == SesPrefix \o <<"B">>
Tmp == <<"t", "m", "p">>
M1 == <<"m", "1">>
M2 == <<"m", "2">>
M3 == <<"m", "3">>
MBad == <<".", ".", "/", "m", "1">>
MCopy == <<"m", "1", " ", "c">>
P1 == <<"P", "1">>
P2 == <<"P", "2">>
PBad == <<"P", " ", "1">>
Edit == <<"e", "d", "i", "t">>
Bash == <<"b", "a", "s", "h">>

File(name, mtime, valid, fields) ==
    [name |-> name, kind |-> "file", mtime |-> mtime, readable |-> TRUE,
     searchable |-> FALSE, entries |-> <<>>,
     valid |-> valid, data |-> Obj(fields)]

Dir(name, mtime, entries) ==
    [name |-> name, kind |-> "dir", mtime |-> mtime, readable |-> TRUE,
     searchable |-> TRUE, entries |-> entries,
     valid |-> FALSE, data |-> NoFields]

Repo(name, objects, corrupt) ==
    [name |-> name, kind |-> "dir", readable |-> TRUE, searchable |-> TRUE, entries |-> <<>>,
     objects |-> objects, corrupt |-> corrupt]

PartName(n) == <<"p", n>> \o DotJson
PatchPart(n, hash) == File(PartName(n), 1, TRUE, [type |-> Str(PatchType), hash |-> hash])
ToolPart(n, tool) == File(PartName(n), 1, TRUE, [type |-> Str(ToolType), tool |-> Str(tool)])

\* The part directory of message M1, or none ("absent").
PartVariants ==
    [onePatch   |-> <<PatchPart("1", Str(H1))>>,
     toolsOnly  |-> <<ToolPart("1", Edit), ToolPart("2", Bash),
                      File(<<"p", "3", ".", "t", "m", "p">>, 1, TRUE,
                           [type |-> Str(PatchType), hash |-> Str(H1)])>>,
     skipping   |-> <<File(PartName("1"), 1, FALSE, <<>>), PatchPart("2", NotAString),
                      ToolPart("3", Edit), PatchPart("4", Str(H1))>>,
     emptyHash  |-> <<PatchPart("1", Str(<<>>)), PatchPart("2", Str(H1))>>,
     twoPatches |-> <<PatchPart("1", Str(H2)), PatchPart("2", Str(H1))>>,
     nameless   |-> <<File(PartName("1"), 1, TRUE,
                           [type |-> Str(ToolType), tool |-> NotAString])>>,
     copied     |-> <<PatchPart("1", Str(H1))>>,
     unreadable |-> <<PatchPart("1", Str(H1))>>,
     unsearchable |-> <<PatchPart("1", Str(H1))>>,
     absent     |-> <<>>]

SessionFile(sessionId, projectID, directory) ==
    File(sessionFileName(sessionId), 1, TRUE,
         [title |-> Str(sessionId), projectID |-> projectID, directory |-> directory])

SessionBOfP2 == SessionFile(SesB, Str(P2), Str(DirQ))

\* The session-metadata root.
ProjectVariants ==
    [direct     |-> <<Dir(P1, 1, <<SessionFile(SesA, Str(P1), Str(DirP))>>),
                      Dir(P2, 1, <<SessionBOfP2>>)>>,
     noSession  |-> <<Dir(P1, 1, <<>>), Dir(P2, 1, <<SessionBOfP2>>)>>,
     emptyFirst |-> <<Dir(P2, 1, <<SessionFile(SesA, Str(<<>>), Str(DirQ)), SessionBOfP2>>),
                      Dir(P1, 1, <<SessionFile(SesA, Str(P1), Undefined)>>)>>,
     goneDir    |-> <<Dir(P1, 1, <<SessionFile(SesA, Str(P1), Str(DirGone))>>),
                      Dir(P2, 1, <<SessionBOfP2>>)>>,
     elsewhere  |-> <<Dir(P2, 1, <<SessionBOfP2, SessionFile(SesA, Str(P1), Str(DirP))>>)>>,
     emptySorted |-> <<Dir(P1, 1, <<SessionFile(SesA, Str(<<>>), Str(DirP))>>),
                       Dir(P2, 1, <<SessionFile(SesA, Str(P2), Str(DirQ)), SessionBOfP2>>)>>,
     dirSecond  |-> <<Dir(P1, 1, <<SessionFile(SesA, Str(P1), NotAString),
                                   SessionFile(SesB, Str(P1), Str(DirP))>>)>>,
     dirEmpty   |-> <<Dir(P1, 1, <<SessionFile(SesA, Str(P1), Str(<<>>)),
                                   SessionFile(SesB, Str(P1), Str(DirP))>>)>>,
     spaced     |-> <<Dir(PBad, 1, <<SessionFile(SesA, Str(PBad), Str(DirP))>>),
                      Dir(P2, 1, <<SessionBOfP2>>)>>]

\* The snapshot root.
SnapshotVariants ==
    [both    |-> <<Repo(P1, {H1, H2}, {}), Repo(P2, {H2}, {})>>,
     noRepo  |-> <<Repo(P2, {H2}, {})>>,
     noHash  |-> <<Repo(P1, {H2}, {}), Repo(P2, {H2}, {})>>,
     corrupt |-> <<Repo(P1, {H1, H2}, {H1}), Repo(P2, {H2}, {})>>,
     spaced  |-> <<Repo(PBad, {H1, H2}, {}), Repo(P2, {H2}, {})>>]

MessageFile(msgId, mtime, sessionID) ==
    File(msgId \o DotJson, mtime, TRUE, [sessionID |-> sessionID, created |-> Num(<<"1">>)])

\* The sessionID field of M1's file: missing, its own directory, or another session.
SessionIDVariants == {Undefined, Str(SesA), Str(SesB)}

\* The message root: two sessions and a directory that is no session.
Messages(tA, tB, sessionID, duplicate) ==
    <<Dir(Tmp, MaxTime, <<MessageFile(M1, 1, Undefined)>>),
      Dir(SesA, tA, <<MessageFile(M1, 1, sessionID), MessageFile(M3, 2, Str(SesA)),
                      File(<<"n", "o", "t", "e">>, 2, TRUE, <<>>)>>),
      Dir(SesB, tB, <<MessageFile(M2, 1, Str(SesB))>>
                    \o IF duplicate THEN <<MessageFile(M1, 2, Undefined)>> ELSE <<>>)>>

Parts(m1Parts) ==
    (IF m1Parts = "absent" THEN <<>>
     ELSE <<[Dir(M1, 1, PartVariants[m1Parts]) EXCEPT !.readable = m1Parts # "unreadable",
                                                      !.searchable = m1Parts # "unsearchable"]>>)
    \o <<Dir(M2, 1, <<PatchPart("1", Str(H2))>>), Dir(M3, 1, <<PatchPart("1", Str(H1))>>)>>
    \o (IF m1Parts = "copied" THEN <<Dir(MCopy, 1, PartVariants[m1Parts])>> ELSE <<>>)

\* The message root after message M1 and its parts were copied under a name
\* with a blank in it.
WithCopy(root) == [root EXCEPT ![2].entries = @ \o <<MessageFile(MCopy, 1, Undefined)>>]

WorkTrees(contentA) ==
    [d \in DirPaths |->
        IF d = DirP THEN [exists |-> TRUE, tree |-> [f \in TreeFileSet |->
                                                       IF f = FileA THEN contentA ELSE Zeros]]
        ELSE IF d = DirQ THEN [exists |-> TRUE, tree |-> ObjectTree(H1)]
        ELSE [exists |-> FALSE, tree |-> ObjectTree(H1)]]

(***************************************************************************)
(* The library calls over a storage that does not change                   *)
(***************************************************************************)
NoCall == [op |-> "none", messageId |-> <<>>, sessionId |-> <<>>, filePath |-> Null,
           limit |-> 0, ret |-> Null, git |-> <<>>, again |-> <<>>]

\* The call with what it returned and the git subprocesses it ran.
Returned(made, result) == [made EXCEPT !.ret = result.ret, !.git = result.git]

RunIdle ==
    [variant |-> "none", pc |-> "idle", msgId |-> <<>>, filePath |-> <<>>, hash |-> <<>>,
     projectId |-> <<>>, projectDir |-> <<>>, filesChanged |-> <<>>, shown |-> <<>>,
     response |-> <<>>, patch |-> <<>>, log |-> <<>>]

Peer == 1..2
NoPeers == [i \in Peer |-> RunIdle]

MessageIdInputs == {M1, M2, MBad, <<>>}
FilterInputs == {Null, Str(FileA), Str(FileB), Str(<<"s">>)}
FileAUpper == <<"s", "/", "A">>
PathInputs == {FileA, FileB, FileAUpper, <<"s">>}

Edited == [l \in Lines |-> IF l = 1 THEN 1 ELSE 0]

Init ==
    \E m1Parts \in DOMAIN PartVariants, project \in DOMAIN ProjectVariants,
       snapshot \in DOMAIN SnapshotVariants, sessionID \in SessionIDVariants,
       duplicate \in BOOLEAN, tA \in 1..MaxTime, tB \in 1..MaxTime,
       contentA \in {Zeros, Edited}, dir \in {DirP, DirQ} :
        /\ \/ /\ sessionID = Undefined /\ ~duplicate /\ tA = 1 /\ tB = 1
              /\ project \notin {"spaced", "emptySorted", "dirSecond", "dirEmpty"}
              /\ snapshot # "spaced"
              /\ m1Parts \notin {"nameless", "unreadable", "unsearchable", "copied"}
           \/ /\ project = "direct" /\ contentA = Edited /\ dir = DirP
              /\ m1Parts \in {"onePatch", "toolsOnly", "twoPatches"} /\ snapshot # "spaced"
           \/ /\ sessionID = Undefined /\ ~duplicate /\ tA = 1 /\ tB = 1
              /\ contentA = Edited /\ dir = DirP /\ snapshot \in {"both", "spaced"}
              /\ \/ /\ project \in {"spaced", "emptySorted", "dirSecond", "dirEmpty"}
                    /\ m1Parts = "onePatch"
                 \/ /\ project = "direct"
                    /\ m1Parts \in {"nameless", "unreadable", "unsearchable", "copied"}
        /\ messageRoot = IF m1Parts = "copied"
                         THEN WithCopy(Messages(tA, tB, sessionID, duplicate))
                         ELSE Messages(tA, tB, sessionID, duplicate)
        /\ partRoot = Parts(m1Parts)
        /\ sessionRoot = ProjectVariants[project]
        /\ snapshotRoot = SnapshotVariants[snapshot]
        /\ dirs = WorkTrees(contentA)
        /\ cwd = dir
        /\ call = NoCall
        /\ run = RunIdle
        /\ peers = NoPeers

GetMessageDiff ==
    \E messageId \in MessageIdInputs, filePath \in FilterInputs :
        /\ call.op = "none"
        /\ call' = Returned([NoCall EXCEPT !.op = "getMessageDiff",
                                            !.messageId = messageId,
                                            !.filePath = filePath],
                             getMessageDiff(messageId, filePath))
        /\ UNCHANGED <<disk, cwd, run, peers>>

\* The call as it would be if scanning a session directory touched it.
GetFileHistory_touching ==
    \E filePath \in PathInputs, limit \in 0..MaxLimit :
        /\ call.op = "none"
        /\ call' = Returned([NoCall EXCEPT !.op = "getFileHistory",
                                            !.filePath = Str(filePath), !.limit = limit],
                             getFileHistory(filePath, limit))
        /\ messageRoot' = [i \in DOMAIN messageRoot |->
                              [messageRoot[i] EXCEPT !.mtime = IF i = 2 THEN MaxTime ELSE 1]]
        /\ UNCHANGED <<partRoot, sessionRoot, snapshotRoot, dirs, cwd, run, peers>>

GetFileHistory ==
    \E filePath \in PathInputs, limit \in 0..MaxLimit :
        /\ call.op = "none"
        /\ call' = Returned([NoCall EXCEPT !.op = "getFileHistory",
                                            !.filePath = Str(filePath), !.limit = limit],
                             getFileHistory(filePath, limit))
        /\ UNCHANGED <<disk, cwd, run, peers>>

\* The listing as it would be if reading a session directory touched it.
GetRecentSessions_touching ==
    \E limit \in 0..MaxLimit :
        /\ call.op = "none"
        /\ call' = [NoCall EXCEPT !.op = "getRecentSessions", !.limit = limit,
                                  !.ret = getRecentSessions(limit)]
        /\ messageRoot' = [i \in DOMAIN messageRoot |->
                              [messageRoot[i] EXCEPT !.mtime = IF i = 2 THEN MaxTime ELSE 1]]
        /\ UNCHANGED <<partRoot, sessionRoot, snapshotRoot, dirs, cwd, run, peers>>

SessionIdInputs == {SesA, SesB, Tmp, SesPrefix, SesPrefix \o <<"Z">>}

GetProjectIdFromSession ==
    \E sessionId \in SessionIdInputs :
        /\ call.op = "none"
        /\ call' = [NoCall EXCEPT !.op = "getProjectIdFromSession", !.sessionId = sessionId,
                                  !.ret = getProjectIdFromSession(sessionId)]
        /\ UNCHANGED <<disk, cwd, run, peers>>

\* The shell helper prints the project id, or nothing.
ShGetProjectIdFromSession ==
    \E session_id \in SessionIdInputs :
        /\ call.op = "none"
        /\ call' = [NoCall EXCEPT !.op = "_get_project_id_from_session",
                                  !.sessionId = session_id,
                                  !.ret = _get_project_id_from_session(session_id)]
        /\ UNCHANGED <<disk, cwd, run, peers>>

GetProjectIdFromMessage ==
    \E msgId \in MessageIdInputs :
        /\ call.op = "none"
        /\ call' = [NoCall EXCEPT !.op = "getProjectIdFromMessage", !.messageId = msgId,
                                  !.ret = getProjectIdFromMessage(msgId)]
        /\ UNCHANGED <<disk, cwd, run, peers>>

\* The shell helper prints the project id, or nothing.
ShGetProjectIdFromMessage ==
    \E msg_id \in MessageIdInputs :
        /\ call.op = "none"
        /\ call' = [NoCall EXCEPT !.op = "_get_project_id_from_message",
                                  !.messageId = msg_id,
                                  !.ret = _get_project_id_from_message(msg_id)]
        /\ UNCHANGED <<disk, cwd, run, peers>>

ProjectIdInputs == {P1, P2, PBad, <<"P", "9">>}

\* The three listings of the storage: the session directories, the message
\* files of a session, the part files of a message.
Listed(entries) == [kind |-> "entries", val |-> entries]

ListSessionDirectories ==
    /\ call.op = "none"
    /\ call' = [NoCall EXCEPT !.op = "listSessionDirectories",
                              !.ret = Listed(listDirectories(RootDir(messageRoot)))]
    /\ UNCHANGED <<disk, cwd, run, peers>>

ListMessageFiles ==
    \E sessionId \in SessionIdInputs :
        /\ call.op = "none"
        /\ call' = [NoCall EXCEPT !.op = "listMessageFiles", !.sessionId = sessionId,
                                  !.ret = Listed(listFiles(join(RootDir(messageRoot), sessionId)))]
        /\ UNCHANGED <<disk, cwd, run, peers>>

ListPartFiles ==
    \E msgId \in MessageIdInputs :
        /\ call.op = "none"
        /\ call' = [NoCall EXCEPT !.op = "listPartFiles", !.messageId = msgId,
                                  !.ret = Listed(listFiles(join(RootDir(partRoot), msgId)))]
        /\ UNCHANGED <<disk, cwd, run, peers>>

GetPatchHash ==
    \E msgId \in MessageIdInputs :
        /\ call.op = "none"
        /\ call' = [NoCall EXCEPT !.op = "getPatchHash", !.messageId = msgId,
                                  !.ret = getPatchHash(msgId)]
        /\ UNCHANGED <<disk, cwd, run, peers>>

GetProjectDirectory ==
    \E projectId \in ProjectIdInputs :
        /\ call.op = "none"
        /\ call' = [NoCall EXCEPT !.op = "getProjectDirectory", !.messageId = projectId,
                                  !.ret = getProjectDirectory(projectId)]
        /\ UNCHANGED <<disk, cwd, run, peers>>

AgentMessageDiff ==
    \E msgId \in MessageIdInputs, filePath \in {Null, Str(FileA)} :
        /\ call.op = "none"
        /\ call' = Returned([NoCall EXCEPT !.op = "agent_message_diff", !.messageId = msgId,
                                            !.filePath = filePath],
                             agent_message_diff(msgId, filePath))
        /\ UNCHANGED <<disk, cwd, run, peers>>

GetRecentSessions ==
    \E limit \in 0..MaxLimit :
        /\ call.op = "none"
        /\ call' = [NoCall EXCEPT !.op = "getRecentSessions", !.limit = limit,
                                  !.ret = getRecentSessions(limit)]
        /\ UNCHANGED <<disk, cwd, run, peers>>

GetSessionMessages ==
    \E sessionId \in SessionIdInputs :
        /\ call.op = "none"
        /\ call' = Returned([NoCall EXCEPT !.op = "getSessionMessages",
                                            !.sessionId = sessionId],
                             getSessionMessages(sessionId))
        /\ UNCHANGED <<disk, cwd, run, peers>>

\* The caller makes the same call once more, before anything else happens.
GetFileHistoryAgain ==
    /\ call.op = "getFileHistory" /\ call.again = <<>>
    /\ call' = [call EXCEPT !.again = <<getFileHistory(call.filePath.val, call.limit)>>]
    /\ UNCHANGED <<disk, cwd, run, peers>>

\* The caller has taken the result; the library keeps nothing between calls.
Return ==
    /\ call.op # "none"
    /\ call' = NoCall
    /\ UNCHANGED <<disk, cwd, run, peers>>

Next ==
    \/ GetMessageDiff
    \/ GetFileHistory
    \/ GetFileHistoryAgain
    \/ GetSessionMessages
    \/ GetRecentSessions
    \/ AgentMessageDiff
    \/ GetProjectIdFromSession
    \/ ShGetProjectIdFromSession
    \/ GetProjectIdFromMessage
    \/ ShGetProjectIdFromMessage
    \/ GetProjectDirectory
    \/ GetPatchHash
    \/ ListSessionDirectories
    \/ ListMessageFiles
    \/ ListPartFiles
    \/ Return

Spec == Init /\ [][Next]_vars


(***************************************************************************)
(* agent_revert_file: typescript/index.ts and diffs.sh                     *)
(***************************************************************************)
RevertIdInputs == {M1, M2, MBad, <<>>}
RevertPathInputs == {FileA, FileB, <<"s">>}
AnswerInputs == {<<"y">>, <<"Y">>, <<"n">>, <<>>, <<" ", "y">>, <<"y", "e", "s">>}

\* An empty answer taken for a yes.
Affirmative_orEmpty == {<<"y">>, <<"Y">>, <<>>}

Affirmative == {<<"y">>, <<"Y">>}

\* The run with its locals set and a line written to the log.
Logged(r, events) == [r EXCEPT !.log = r.log \o events]
Ended(r, events) == [Logged(r, events) EXCEPT !.pc = "done"]

Started(variant, msgId, filePath) ==
    [RunIdle EXCEPT !.variant = variant, !.msgId = msgId, !.filePath = filePath]

\* index.ts 618-655: arguments, message id, patch hash, project, snapshot
\* directory, project directory, hash in the snapshot.  "read part" is the first
\* use of the message id on the file system: the listing of part/<msgId>.
tsLocated(msgId, filePath) ==
    LET r0 == Started("ts", msgId, filePath) IN
    IF msgId = <<>> \/ filePath = <<>> THEN Ended(r0, <<"usage">>)
    ELSE IF ~isValidMessageId(msgId) THEN Ended(r0, <<"invalid message id">>)
    ELSE LET hash == getPatchHash(msgId)
             read == Logged(r0, <<"read part">>) IN
    IF ~Truthy(hash) THEN Ended(read, <<"no file changes">>)
    ELSE LET r1 == [read EXCEPT !.hash = hash.val]
             projectId == getProjectIdFromMessage(msgId) IN
    IF ~Truthy(projectId) THEN Ended(r1, <<"no project id">>)
    ELSE LET r2 == [r1 EXCEPT !.projectId = projectId.val] IN
    IF ~existsSync(join(RootDir(snapshotRoot), projectId.val))
    THEN Ended(r2, <<"no snapshot directory">>)
    ELSE LET projectDir == getProjectDirectory(projectId.val) IN
    IF ~Truthy(projectDir) \/ ~dirExists(projectDir.val)
    THEN Ended(r2, <<"no project directory">>)
    ELSE LET r3 == [r2 EXCEPT !.projectDir = projectDir.val] IN
    IF ~gitCatFileExists(projectId.val, hash.val)
    THEN Ended(r3, <<"git cat-file", "hash not in snapshot">>)
    ELSE [Logged(r3, <<"git cat-file">>) EXCEPT !.pc = "located"]

TsLocate ==
    /\ run.pc = "idle"
    /\ \E msgId \in RevertIdInputs, filePath \in RevertPathInputs \cup {<<>>} :
          run' = tsLocated(msgId, filePath)
    /\ UNCHANGED <<disk, cwd, call, peers>>

\* The step without the membership test.
TsValidate_unchecked ==
    /\ run.variant = "ts" /\ run.pc = "located"
    /\ LET filesChanged ==
               splitLines(runGit(nameOnlyArgs(run.projectId, Str(run.projectDir),
                                              run.hash)).stdout)
       IN run' = [Logged(run, <<"git diff --name-only">>)
                     EXCEPT !.filesChanged = filesChanged, !.pc = "validated"]
    /\ UNCHANGED <<disk, cwd, call, peers>>

\* index.ts 657-674: the file must be among the names of the hash's diff.
tsValidated(located) ==
    LET filesChanged ==
            splitLines(runGit(nameOnlyArgs(located.projectId, Str(located.projectDir),
                                           located.hash)).stdout)
        r == [Logged(located, <<"git diff --name-only">>) EXCEPT !.filesChanged = filesChanged]
    IN IF ~includes(filesChanged, located.filePath)
       THEN Ended(r, <<"file not modified in message">>)
       ELSE [r EXCEPT !.pc = "validated"]

TsValidate ==
    /\ run.variant = "ts" /\ run.pc = "located"
    /\ run' = tsValidated(run)
    /\ UNCHANGED <<disk, cwd, call, peers>>

\* index.ts 676-708: the diff of the file is computed and shown.
tsDiffed(validated) ==
    LET diffResult == runGit(diffArgs(validated.projectId, Str(validated.projectDir),
                                      validated.hash, Str(validated.filePath)))
        r == Logged(validated, <<"git diff">>)
    IN IF diffResult.status # 0 THEN Ended(r, <<"failed to compute diff">>)
       ELSE IF diffResult.stdout = <<>> THEN Ended(r, <<"no changes to revert">>)
       ELSE [Logged(r, <<"changes shown", "prompt">>)
                EXCEPT !.shown = diffResult.stdout, !.pc = "prompt"]

TsDiff ==
    /\ run.variant = "ts" /\ run.pc = "validated"
    /\ run' = tsDiffed(run)
    /\ UNCHANGED <<disk, cwd, call, peers>>

\* index.ts 90-101, 710-714: the answer is trimmed; only y or Y goes on.
answered(prompted, line) ==
    LET response == trim(line)
        r == [Logged(prompted, <<"answer">>) EXCEPT !.response = response]
    IN IF response \notin Affirmative THEN Ended(r, <<"cancelled">>)
       ELSE [r EXCEPT !.pc = "confirmed"]

TsAnswer ==
    /\ run.variant = "ts" /\ run.pc = "prompt"
    /\ \E line \in AnswerInputs : run' = answered(run, line)
    /\ UNCHANGED <<disk, cwd, call, peers>>

\* git apply -R --reject: the hunks that match are applied, the others left.
TsApply_reject ==
    /\ run.variant = "ts" /\ run.pc = "confirmed"
    /\ LET r == [Logged(run, <<"git apply -R">>) EXCEPT !.patch = run.shown]
           tree == dirs[run.projectDir].tree
           matching == [i \in DOMAIN run.shown |->
                           [path |-> run.shown[i].path,
                            hunks |-> {h \in run.shown[i].hunks :
                                          tree[run.shown[i].path][h.line] = h.new}]]
       IN /\ dirs' = [dirs EXCEPT ![run.projectDir].tree = reverseApplied(matching, @)]
          /\ run' = Ended(r, IF appliesInReverse(run.shown, tree)
                             THEN <<"reverted">> ELSE <<"failed to apply">>)
    /\ UNCHANGED <<messageRoot, partRoot, sessionRoot, snapshotRoot, cwd, call, peers>>

\* The apply step that, on a conflict, waits for the user to resolve it.
TsApply_awaitsResolution ==
    /\ run.variant = "ts" /\ run.pc = "confirmed"
    /\ LET r == [Logged(run, <<"git apply -R">>) EXCEPT !.patch = run.shown]
           ok == dirExists(run.projectDir)
                 /\ appliesInReverse(run.shown, dirs[run.projectDir].tree)
       IN IF ok
          THEN /\ dirs' = [dirs EXCEPT ![run.projectDir].tree = reverseApplied(run.shown, @)]
               /\ run' = Ended(r, <<"reverted">>)
          ELSE /\ dirs' = dirs
               /\ run' = [r EXCEPT !.pc = "conflict"]
    /\ UNCHANGED <<messageRoot, partRoot, sessionRoot, snapshotRoot, cwd, call, peers>>

\* index.ts 716-737: git apply -R in the project directory, fed the diff shown.
TsApply ==
    /\ run.variant = "ts" /\ run.pc = "confirmed"
    /\ LET r == [Logged(run, <<"git apply -R">>) EXCEPT !.patch = run.shown]
           ok == dirExists(run.projectDir)
                 /\ appliesInReverse(run.shown, dirs[run.projectDir].tree)
       IN IF ok
          THEN /\ dirs' = [dirs EXCEPT ![run.projectDir].tree = reverseApplied(run.shown, @)]
               /\ run' = Ended(r, <<"reverted">>)
          ELSE /\ dirs' = dirs
               /\ run' = Ended(r, <<"failed to apply">>)
    /\ UNCHANGED <<messageRoot, partRoot, sessionRoot, snapshotRoot, cwd, call, peers>>

\* diffs.sh 365-406: arguments, patch hash, project, snapshot directory, project
\* directory, hash in the snapshot.  "read part" is find part/$msg_id.
shLocated(msg_id, file_path) ==
    LET r0 == Started("sh", msg_id, file_path) IN
    IF msg_id = <<>> \/ file_path = <<>> THEN Ended(r0, <<"usage">>)
    ELSE LET hash == sh_patch_hash(msg_id)
             read == Logged(r0, <<"read part">>) IN
    IF sh_no_hash(hash) THEN Ended(read, <<"no file changes">>)
    ELSE LET r1 == [read EXCEPT !.hash = hash]
             project_id == _get_project_id_from_message(msg_id) IN
    IF project_id = <<>> THEN Ended(r1, <<"no project id">>)
    ELSE LET r2 == [r1 EXCEPT !.projectId = project_id] IN
    IF join(RootDir(snapshotRoot), project_id).kind # "dir"
    THEN Ended(r2, <<"no snapshot directory">>)
    ELSE LET project_dir == sh_project_dir(project_id) IN
    IF project_dir = <<>> \/ ~dirExists(project_dir)
    THEN Ended(r2, <<"no project directory">>)
    ELSE LET r3 == [r2 EXCEPT !.projectDir = project_dir] IN
    IF ~gitCatFileExists(project_id, hash)
    THEN Ended(r3, <<"git cat-file", "hash not in snapshot">>)
    ELSE [Logged(r3, <<"git cat-file">>) EXCEPT !.pc = "located"]

ShLocate ==
    /\ run.pc = "idle"
    /\ \E msg_id \in RevertIdInputs, file_path \in RevertPathInputs \cup {<<>>} :
          run' = shLocated(msg_id, file_path)
    /\ UNCHANGED <<disk, cwd, call, peers>>

\* diffs.sh 408-414: git diff --name-only without --work-tree, grep -Fxq.
shValidated(located) ==
    LET files_changed ==
            splitLines(runGit(nameOnlyArgs(located.projectId, Null, located.hash)).stdout)
        r == [Logged(located, <<"git diff --name-only">>) EXCEPT !.filesChanged = files_changed]
    IN IF ~includes(files_changed, located.filePath)
       THEN Ended(r, <<"file not modified in message">>)
       ELSE [r EXCEPT !.pc = "validated"]

ShValidate ==
    /\ run.variant = "sh" /\ run.pc = "located"
    /\ run' = shValidated(run)
    /\ UNCHANGED <<disk, cwd, call, peers>>

\* diffs.sh 416-422: the diff is printed, whatever it is, and the prompt follows.
shShown(validated) ==
    [Logged(validated, <<"git diff", "changes shown", "prompt">>)
        EXCEPT !.shown = runGit(diffArgs(validated.projectId, Str(validated.projectDir),
                                         validated.hash, Str(validated.filePath))).stdout,
               !.pc = "prompt"]

ShShow ==
    /\ run.variant = "sh" /\ run.pc = "validated"
    /\ run' = shShown(run)
    /\ UNCHANGED <<disk, cwd, call, peers>>

\* diffs.sh 423-444: read strips the blanks around the line; only y or Y goes on.
ShAnswer ==
    /\ run.variant = "sh" /\ run.pc = "prompt"
    /\ \E line \in AnswerInputs : run' = answered(run, line)
    /\ UNCHANGED <<disk, cwd, call, peers>>

\* diffs.sh 428-438: the diff is computed again and piped to git apply -R.
ShApply ==
    /\ run.variant = "sh" /\ run.pc = "confirmed"
    /\ LET patch == runGit(diffArgs(run.projectId, Str(run.projectDir), run.hash,
                                    Str(run.filePath))).stdout
           r == [Logged(run, <<"git diff", "git apply -R">>) EXCEPT !.patch = patch]
           ok == dirExists(run.projectDir)
                 /\ appliesInReverse(patch, dirs[run.projectDir].tree)
       IN IF ok
          THEN /\ dirs' = [dirs EXCEPT ![run.projectDir].tree = reverseApplied(patch, @)]
               /\ run' = Ended(r, <<"reverted">>)
          ELSE /\ dirs' = dirs
               /\ run' = Ended(r, <<"failed to apply">>)
    /\ UNCHANGED <<messageRoot, partRoot, sessionRoot, snapshotRoot, cwd, call, peers>>

\* While a command is between two of its steps, someone else (the user, an
\* editor, the agent) rewrites a line of the file it was asked to revert.
EditWorkTree ==
    /\ run.pc \in {"located", "validated", "prompt", "confirmed"}
    /\ run.filePath \in TreeFileSet
    /\ \E l \in Lines, v \in Vals :
          /\ dirs[DirP].tree[run.filePath][l] # v
          /\ dirs' = [dirs EXCEPT ![DirP].tree[run.filePath][l] = v]
    /\ UNCHANGED <<messageRoot, partRoot, sessionRoot, snapshotRoot, cwd, call, run, peers>>

InitRevert ==
    \E m1Parts \in {"onePatch", "toolsOnly"},
       project \in {"direct", "goneDir", "noSession"},
       snapshot \in DOMAIN SnapshotVariants, dir \in {DirP, DirQ} :
        /\ (project = "direct" /\ snapshot = "both") \/ dir = DirP
        /\ messageRoot = Messages(1, 1, Str(SesA), FALSE)
        /\ partRoot = Parts(m1Parts)
        /\ sessionRoot = ProjectVariants[project]
        /\ snapshotRoot = SnapshotVariants[snapshot]
        /\ dirs = WorkTrees(Edited)
        /\ cwd = dir
        /\ call = NoCall
        /\ run = RunIdle
        /\ peers = NoPeers

NextRevert ==
    \/ TsLocate \/ TsValidate \/ TsDiff \/ TsAnswer \/ TsApply
    \/ ShLocate \/ ShValidate \/ ShShow \/ ShAnswer \/ ShApply
    \/ EditWorkTree

SpecRevert == InitRevert /\ [][NextRevert]_vars

\* The steps of a run that call only synchronous subprocesses (spawnSync, a shell
\* pipeline): the process takes them without waiting for anyone.
Proceed == TsValidate \/ TsDiff \/ TsApply \/ ShValidate \/ ShShow \/ ShApply

\* The step that needs the user: the line read at the prompt.
Answer == TsAnswer \/ ShAnswer

\* A revert run whose subprocesses return and whose prompt is answered.
SpecRevertLive ==
    InitRevert /\ [][NextRevert]_vars /\ WF_vars(Proceed) /\ WF_vars(Answer)

(***************************************************************************)
(* Two revert runs side by side in one working tree                        *)
(***************************************************************************)
\* Two processes run the command for the same message and file.  Nothing
\* orders their steps: neither variant takes a lock.
PeerStart(i) ==
    /\ peers[i].pc = "idle"
    /\ \E variant \in {"ts", "sh"}, filePath \in RevertPathInputs :
          /\ \A j \in Peer : peers[j].pc # "idle" => peers[j].filePath = filePath
          /\ peers' = [peers EXCEPT ![i] = IF variant = "ts" THEN tsLocated(M1, filePath)
                                           ELSE shLocated(M1, filePath)]
    /\ UNCHANGED <<disk, cwd, call, run>>

PeerValidate(i) ==
    /\ peers[i].pc = "located"
    /\ peers' = [peers EXCEPT ![i] = IF peers[i].variant = "ts" THEN tsValidated(peers[i])
                                     ELSE shValidated(peers[i])]
    /\ UNCHANGED <<disk, cwd, call, run>>

PeerShow(i) ==
    /\ peers[i].pc = "validated"
    /\ peers' = [peers EXCEPT ![i] = IF peers[i].variant = "ts" THEN tsDiffed(peers[i])
                                     ELSE shShown(peers[i])]
    /\ UNCHANGED <<disk, cwd, call, run>>

PeerAnswer(i) ==
    /\ peers[i].pc = "prompt"
    /\ \E line \in AnswerInputs : peers' = [peers EXCEPT ![i] = answered(peers[i], line)]
    /\ UNCHANGED <<disk, cwd, call, run>>

\* git apply -R is a process of its own: it reads the file and tries the hunks
\* on what it read (index.ts 716-720 feeds it the diff shown, diffs.sh 428 the
\* diff computed again) ...
PeerApplyReads(i) ==
    /\ peers[i].pc = "confirmed"
    /\ LET r == peers[i]
           patch == IF r.variant = "ts" THEN r.shown
                    ELSE runGit(diffArgs(r.projectId, Str(r.projectDir), r.hash,
                                         Str(r.filePath))).stdout
           tried == [Logged(r, IF r.variant = "ts" THEN <<"git apply -R">>
                               ELSE <<"git diff", "git apply -R">>) EXCEPT !.patch = patch]
           ok == dirExists(r.projectDir) /\ appliesInReverse(patch, dirs[r.projectDir].tree)
       IN peers' = [peers EXCEPT ![i] = IF ok THEN [tried EXCEPT !.pc = "applying"]
                                        ELSE Ended(tried, <<"failed to apply">>)]
    /\ UNCHANGED <<disk, cwd, call, run>>

\* ... and then writes the file with the hunks taken back and exits with 0.
PeerApplyWrites(i) ==
    /\ peers[i].pc = "applying"
    /\ dirs' = [dirs EXCEPT ![peers[i].projectDir].tree = reverseApplied(peers[i].patch, @)]
    /\ peers' = [peers EXCEPT ![i] = Ended(peers[i], <<"reverted">>)]
    /\ UNCHANGED <<messageRoot, partRoot, sessionRoot, snapshotRoot, cwd, call, run>>

InitPeers == InitRevert /\ cwd = DirP

NextPeers ==
    \E i \in Peer :
        \/ PeerStart(i)
        \/ PeerValidate(i)
        \/ PeerShow(i)
        \/ PeerAnswer(i)
        \/ PeerApplyReads(i)
        \/ PeerApplyWrites(i)

SpecPeers == InitPeers /\ [][NextPeers]_vars

(***************************************************************************)
(* Library calls and one revert over the same storage                      *)
(***************************************************************************)
\* The calls come before the revert is started; the revert runs with no call
\* of the library pending.
NextAll ==
    \/ run.pc = "idle" /\ GetMessageDiff
    \/ run.pc = "idle" /\ GetFileHistory
    \/ run.pc = "idle" /\ GetFileHistoryAgain
    \/ run.pc = "idle" /\ GetSessionMessages
    \/ run.pc = "idle" /\ GetRecentSessions
    \/ run.pc = "idle" /\ AgentMessageDiff
    \/ run.pc = "idle" /\ GetProjectIdFromSession
    \/ run.pc = "idle" /\ ShGetProjectIdFromSession
    \/ run.pc = "idle" /\ GetProjectIdFromMessage
    \/ run.pc = "idle" /\ ShGetProjectIdFromMessage
    \/ run.pc = "idle" /\ GetProjectDirectory
    \/ run.pc = "idle" /\ GetPatchHash
    \/ run.pc = "idle" /\ ListSessionDirectories
    \/ run.pc = "idle" /\ ListMessageFiles
    \/ run.pc = "idle" /\ ListPartFiles
    \/ run.pc = "idle" /\ Return
    \/ call.op = "none" /\ TsLocate
    \/ call.op = "none" /\ TsValidate
    \/ call.op = "none" /\ TsDiff
    \/ call.op = "none" /\ TsAnswer
    \/ call.op = "none" /\ TsApply
    \/ call.op = "none" /\ ShLocate
    \/ call.op = "none" /\ ShValidate
    \/ call.op = "none" /\ ShShow
    \/ call.op = "none" /\ ShAnswer
    \/ call.op = "none" /\ ShApply
    \/ call.op = "none" /\ EditWorkTree

SpecAll == InitRevert /\ [][NextAll]_vars

(***************************************************************************)
(* What the claims speak of, said without the code under test              *)
(***************************************************************************)
\* The hash is an object of the snapshot repository <snapshot-root>/<projectId>.
SnapshotHas(projectId, hash) ==
    \E i \in 1..Len(snapshotRoot) :
        /\ snapshotRoot[i].name = projectId
        /\ snapshotRoot[i].kind = "dir"
        /\ hash \in snapshotRoot[i].objects

SnapshotDirExists(projectId) == \E i \in 1..Len(snapshotRoot) : snapshotRoot[i].name = projectId

\* git can read the object's tree.
SnapshotReadable(projectId, hash) ==
    \E i \in 1..Len(snapshotRoot) :
        /\ snapshotRoot[i].name = projectId
        /\ hash \in snapshotRoot[i].objects \ snapshotRoot[i].corrupt

\* The working tree a diff of the project is taken against.
TreeOfProject(projectId) ==
    LET projectDir == getProjectDirectory(projectId)
    IN IF Truthy(projectDir) /\ dirExists(projectDir.val) THEN dirs[projectDir.val].tree
       ELSE dirs[cwd].tree

\* The changed-path set of a hash: the files whose snapshot differs from the tree.
changedPaths(hash, tree) == {f \in TreeFileSet : ObjectTree(hash)[f] # tree[f]}

RanDiff(git) == \E i \in 1..Len(git) : git[i].cmd = "diff"

\* C1: getMessageDiff returns absent, and runs no diff subprocess, when the message
\* id is malformed, the message has no patch hash, no project resolves, the
\* project's snapshot directory is missing, or the hash is not in that repository.
C1_AbsentWithoutDiff ==
    (/\ call.op = "getMessageDiff"
     /\ \/ ~isValidMessageId(call.messageId)
        \/ ~Truthy(getPatchHash(call.messageId))
        \/ ~Truthy(getProjectIdFromMessage(call.messageId))
        \/ ~SnapshotDirExists(getProjectIdFromMessage(call.messageId).val)
        \/ ~SnapshotHas(getProjectIdFromMessage(call.messageId).val,
                        getPatchHash(call.messageId).val))
    => (call.ret = Null /\ ~RanDiff(call.git))

\* A call that got as far as the existence check and found the hash missing.
C1_Witness ==
    /\ call.op = "getMessageDiff"
    /\ isValidMessageId(call.messageId)
    /\ Truthy(getPatchHash(call.messageId))
    /\ Truthy(getProjectIdFromMessage(call.messageId))
    /\ SnapshotDirExists(getProjectIdFromMessage(call.messageId).val)
    /\ ~SnapshotHas(getProjectIdFromMessage(call.messageId).val,
                    getPatchHash(call.messageId).val)
    /\ call.ret = Null
    /\ Len(call.git) = 1

\* C2: for a valid message id whose patch hash and project resolve and whose hash
\* is in the project's snapshot repository, getMessageDiff returns diff text, not
\* absent, whatever the path filter and also when the diff is empty.  (Stated for
\* the entries git can read, so that what refutes it is the empty diff alone.)
C2_DiffNotAbsent ==
    (/\ call.op = "getMessageDiff"
     /\ isValidMessageId(call.messageId)
     /\ Truthy(getPatchHash(call.messageId))
     /\ Truthy(getProjectIdFromMessage(call.messageId))
     /\ SnapshotHas(getProjectIdFromMessage(call.messageId).val,
                    getPatchHash(call.messageId).val)
     /\ SnapshotReadable(getProjectIdFromMessage(call.messageId).val,
                         getPatchHash(call.messageId).val))
    => call.ret # Null

\* The diff subprocess of a call that ran one.
DiffResult(git) == runGit(git[Len(git)])

\* C3: a diff subprocess that succeeded with empty output and one that failed never
\* give the caller of getMessageDiff the same return value.
C3_EmptyDistinguishedFromFailure ==
    (/\ call.op = "getMessageDiff"
     /\ RanDiff(call.git)
     /\ DiffResult(call.git).status # 0)
    => \A messageId \in MessageIdInputs, filePath \in FilterInputs :
          LET other == getMessageDiff(messageId, filePath)
          IN (/\ RanDiff(other.git)
              /\ DiffResult(other.git).status = 0
              /\ DiffResult(other.git).stdout = <<>>)
             => other.ret # call.ret


SessionDirs == SelectSeq(listDirectories(RootDir(messageRoot)), IsSesName)

\* The session is among the limit most recently modified whatever the order of ties.
SurelyInWindow(sessionDir, limit) ==
    Cardinality({i \in 1..Len(SessionDirs) :
                    /\ SessionDirs[i].name # sessionDir.name
                    /\ SessionDirs[i].mtime >= sessionDir.mtime}) < limit

\* The session can be among the limit most recently modified for some order of ties.
MaybeInWindow(sessionDir, limit) ==
    Cardinality({i \in 1..Len(SessionDirs) : SessionDirs[i].mtime > sessionDir.mtime}) < limit

\* The message's patch hash and project resolve, git can read the hash in the
\* project's snapshot repository, and the hash's changed-path set has the path.
Touches(msgId, filePath) ==
    LET hash == getPatchHash(msgId)
        projectId == getProjectIdFromMessage(msgId)
    IN /\ Truthy(hash)
       /\ Truthy(projectId)
       /\ SnapshotHas(projectId.val, hash.val)
       /\ SnapshotReadable(projectId.val, hash.val)
       /\ filePath \in changedPaths(hash.val, TreeOfProject(projectId.val))

\* C9: every entry of fileHistory(path, limit) comes from a message whose patch
\* hash's changed-path set contains a string exactly equal to path.
C9_EntriesTouchPathExactly ==
    call.op = "getFileHistory" =>
        \A i \in 1..Len(call.ret) :
            /\ getPatchHash(call.ret[i].messageId) = Str(call.ret[i].hash)
            /\ Touches(call.ret[i].messageId, call.filePath.val)

\* A history with an entry, asked for a path that has a case variant and a prefix.
C9_Witness ==
    /\ call.op = "getFileHistory"
    /\ call.filePath = Str(FileA)
    /\ Len(call.ret) >= 2

\* C10: fileHistory(path, limit) has an entry for every message of the limit most
\* recently modified sessions whose patch hash and project resolve, whose hash is
\* in the snapshot repository and whose changed-path set contains path; and no
\* entry comes from a session outside the limit most recently modified ones.
C10_CompleteOverWindow ==
    call.op = "getFileHistory" =>
        /\ \A s \in 1..Len(SessionDirs) :
              SurelyInWindow(SessionDirs[s], call.limit) =>
                 \A m \in 1..Len(SessionDirs[s].entries) :
                    LET file == SessionDirs[s].entries[m]
                    IN (/\ file.kind = "file"
                        /\ endsWith(file.name, DotJson)
                        /\ Touches(stripJson(file.name), call.filePath.val))
                       => \E i \in 1..Len(call.ret) :
                             /\ call.ret[i].messageId = stripJson(file.name)
                             /\ call.ret[i].sessionId = SessionDirs[s].name
        /\ \A i \in 1..Len(call.ret) :
              \E s \in 1..Len(SessionDirs) :
                 /\ SessionDirs[s].name = call.ret[i].sessionId
                 /\ MaybeInWindow(SessionDirs[s], call.limit)

\* A search of the newest session alone, with entries, while an older session
\* holds a message that touches the path too.
C10_Witness ==
    /\ call.op = "getFileHistory"
    /\ call.limit = 1
    /\ Len(call.ret) >= 1
    /\ \E s \in 1..Len(SessionDirs) :
          /\ ~MaybeInWindow(SessionDirs[s], call.limit)
          /\ \E m \in 1..Len(SessionDirs[s].entries) :
                /\ endsWith(SessionDirs[s].entries[m].name, DotJson)
                /\ Touches(stripJson(SessionDirs[s].entries[m].name), call.filePath.val)


(***************************************************************************)
(* The claims about agent_revert_file                                      *)
(***************************************************************************)
Events(tag) == {i \in DOMAIN run.log : run.log[i] = tag}
LastEvent(r) == IF r.log = <<>> THEN "" ELSE r.log[Len(r.log)]
SaidYes(response) == response = <<"y">> \/ response = <<"Y">>
RunStep == run' # run

Conflicts(patch, tree) ==
    \E i \in DOMAIN patch : \E h \in patch[i].hunks : tree[patch[i].path][h.line] # h.new

C6_ConflictFailsWhole ==
    [][(run.pc = "confirmed" /\ RunStep
        /\ Conflicts(run'.patch, dirs[run.projectDir].tree)) =>
           /\ run'.pc = "done" /\ LastEvent(run') = "failed to apply"
           /\ dirs' = dirs]_vars

\* A failed apply where one hunk of the patch matched and another did not.
C6_Witness ==
    /\ run.pc = "done" /\ LastEvent(run) = "failed to apply"
    /\ run.projectDir = DirP
    /\ \E i \in DOMAIN run.patch : \E g, h \in run.patch[i].hunks :
          /\ dirs[DirP].tree[run.patch[i].path][g.line] = g.new
          /\ dirs[DirP].tree[run.patch[i].path][h.line] \notin {h.new, h.old}

\* C7: the patch given to git apply -R is the diff that was shown before the
\* prompt, whatever happened to the working tree in between.
C7_AppliedIsShown == Events("git apply -R") # {} => run.patch = run.shown

SessionMtime(sessionId) == entryOf(messageRoot, sessionId).mtime
MessageMtime(sessionId, msgId) ==
    entryOf(entryOf(messageRoot, sessionId).entries, msgId \o DotJson).mtime

\* C11 as stated: of two entries of fileHistory the earlier one's session was
\* modified strictly more recently, or they share the session and the earlier
\* one's message was modified strictly more recently.
C11_StrictlyNewestFirst ==
    call.op = "getFileHistory" =>
        \A i, j \in 1..Len(call.ret) :
            i < j =>
                LET a == call.ret[i]
                    b == call.ret[j]
                IN \/ SessionMtime(a.sessionId) > SessionMtime(b.sessionId)
                   \/ /\ a.sessionId = b.sessionId
                      /\ MessageMtime(a.sessionId, a.messageId)
                            > MessageMtime(b.sessionId, b.messageId)

\* C11 amended: of two entries of fileHistory the earlier one's session was
\* modified no earlier than the later one's, and when they share the session the
\* earlier one's message was modified no earlier; equal times leave the order to
\* the enumeration.
C11_NewestFirst ==
    call.op = "getFileHistory" =>
        \A i, j \in 1..Len(call.ret) :
            i < j =>
                LET a == call.ret[i]
                    b == call.ret[j]
                IN /\ SessionMtime(a.sessionId) >= SessionMtime(b.sessionId)
                   /\ a.sessionId = b.sessionId =>
                         MessageMtime(a.sessionId, a.messageId)
                            >= MessageMtime(b.sessionId, b.messageId)

\* A history with two entries of one session followed by an entry of an older one.
C11_Witness ==
    /\ call.op = "getFileHistory"
    /\ Len(call.ret) >= 3
    /\ call.ret[1].sessionId = call.ret[2].sessionId
    /\ MessageMtime(call.ret[1].sessionId, call.ret[1].messageId)
          > MessageMtime(call.ret[2].sessionId, call.ret[2].messageId)
    /\ SessionMtime(call.ret[2].sessionId) > SessionMtime(call.ret[3].sessionId)

C13_InvalidIdTouchesNothing ==
    (run.variant # "none" /\ ~isValidMessageId(run.msgId)) =>
        /\ run.pc = "done"
        /\ LastEvent(run) \in {"usage", "invalid message id"}
        /\ Events("read part") = {}
        /\ Events("git cat-file") = {}

\* C14: every project id that reaches a git argument (the --git-dir built from
\* the projectID field of a session file) is within the allow-listed characters
\* [A-Za-z0-9._-], as it would be had the code checked it before the use.
C14_IdentifiersCheckedBeforeUse ==
    \A i \in 1..Len(call.git) : isValidMessageId(call.git[i].gitDir)

(***************************************************************************)
(* The claims about getSessionMessages                                     *)
(***************************************************************************)
\* C15: getSessionMessages(sessionId) returns, newest first, one entry for each
\* message file of the session whose message has a patch hash, and no other; an
\* entry's hasSnapshot is true exactly when the project resolved from the session
\* id has that hash in its snapshot repository, and false when there is no such
\* project.
C15_MessagesOfSession ==
    call.op = "getSessionMessages" =>
        LET s == call.sessionId
            IsSession == isValidSessionId(s) /\ \E i \in 1..Len(messageRoot) :
                                                    messageRoot[i].name = s
            files == IF IsSession THEN entryOf(messageRoot, s).entries ELSE <<>>
            Ids == {stripJson(files[k].name) :
                        k \in {n \in 1..Len(files) :
                                  /\ files[n].kind = "file"
                                  /\ IsJsonName(files[n])
                                  /\ Truthy(getPatchHash(stripJson(files[n].name)))}}
            p == getProjectIdFromSession(s)
        IN /\ {call.ret[i].id : i \in 1..Len(call.ret)} = Ids
           /\ Len(call.ret) = Cardinality(Ids)
           /\ \A i, j \in 1..Len(call.ret) :
                  i < j => MessageMtime(s, call.ret[i].id) >= MessageMtime(s, call.ret[j].id)
           /\ \A i \in 1..Len(call.ret) :
                  /\ call.ret[i].hash = getPatchHash(call.ret[i].id).val
                  /\ call.ret[i].hasSnapshot <=>
                        (Truthy(p) /\ SnapshotHas(p.val, call.ret[i].hash))
                  /\ ~Truthy(p) => ~call.ret[i].hasSnapshot

\* A session with two messages, the newer one without its hash in the snapshot
\* and the older one with it.
C15_Witness ==
    /\ call.op = "getSessionMessages"
    /\ Len(call.ret) = 2
    /\ MessageMtime(call.sessionId, call.ret[1].id)
          > MessageMtime(call.sessionId, call.ret[2].id)
    /\ ~call.ret[1].hasSnapshot
    /\ call.ret[2].hasSnapshot

C17_FailureSurfacesStderr ==
    call.op = "getMessageDiff" =>
        \A i \in 1..Len(call.git) :
            LET result == runGit(call.git[i])
            IN (call.git[i].cmd = "diff" /\ result.status # 0) =>
                   /\ call.ret # Null
                   /\ call.ret.kind = "error"
                   /\ call.ret.val = result.stderr

\* C18: what each git diff of a library call printed is what it would have
\* printed had the process been started in any other directory: the tree it
\* compares the snapshot with does not depend on the current directory.
C18_SameFromAnyDirectory ==
    \A i \in 1..Len(call.git) : \A d \in {DirP, DirQ} :
        LET args == call.git[i]
            from(dir) == IF Truthy(args.workTree) THEN args.workTree.val ELSE dir
            printed(dir) ==
                IF args.cmd = "name-only"
                THEN nameOnlyText(ObjectTree(args.hash), dirs[from(dir)].tree)
                ELSE diffText(ObjectTree(args.hash), dirs[from(dir)].tree, args.path)
        IN (args.cmd # "cat-file" /\ runGit(args).status = 0 /\ dirExists(from(d))) =>
               printed(cwd) = printed(d)

(***************************************************************************)
(* The claim about the tools listing                                       *)
(***************************************************************************)
\* The .json part files of a message that parse and carry the given type.
PartsTyped(msgId, type) ==
    {i \in 1..Len(partFilesOf(msgId)) :
        Field(safeReadJson(partFilesOf(msgId)[i]), "type") = Str(type)}

\* C19 as stated: for a message without a part of type "patch", getMessageDiff
\* returns null and agent_message_diff lists at least one tool exactly when the
\* message has a part of type "tool".
C19_ToolsIffToolPart ==
    (call.op = "agent_message_diff" /\ PartsTyped(call.messageId, PatchType) = {}) =>
        /\ getMessageDiff(call.messageId, call.filePath).ret = Null
        /\ call.ret.tools # <<>> <=> PartsTyped(call.messageId, ToolType) # {}

\* C19 amended: for a message without a part of type "patch", getMessageDiff
\* returns null and agent_message_diff lists, in the order of the part files, the
\* tool of each part of type "tool" whose tool is a string; the listing is non-empty
\* exactly when there is such a part.
C19_ToolsIffNamedToolPart ==
    (call.op = "agent_message_diff" /\ PartsTyped(call.messageId, PatchType) = {}) =>
        LET named == {i \in PartsTyped(call.messageId, ToolType) :
                         isString(Field(safeReadJson(partFilesOf(call.messageId)[i]), "tool"))}
        IN /\ getMessageDiff(call.messageId, call.filePath).ret = Null
           /\ call.ret.tools # <<>> <=> named # {}
           /\ Len(call.ret.tools) = Cardinality(named)
           /\ isValidMessageId(call.messageId) => call.ret.said = "no file changes"

\* The message with the tool parts edit and bash and no patch part.
C19_Witness ==
    /\ call.op = "agent_message_diff"
    /\ call.messageId = M1
    /\ PartsTyped(M1, PatchType) = {}
    /\ call.ret.said = "no file changes"
    /\ call.ret.tools = <<Edit, Bash>>

(***************************************************************************)
(* The claim about projectIdFromSession                                    *)
(***************************************************************************)
\* C20: projectIdFromSession returns the projectID of the first project
\* directory, in the order the variant enumerates them, whose <sessionId>.json
\* parses and holds a non-empty string projectID, passing over directories where
\* the file is missing, malformed or without such a projectID; it returns nothing
\* only when no directory has one.  index.ts and history.ts enumerate as readdir
\* does, diffs.sh as the glob sorts.
C20_FirstNonEmptyProjectId ==
    call.op \in {"getProjectIdFromSession", "_get_project_id_from_session"} =>
        LET ts == call.op = "getProjectIdFromSession"
            projectDirs == SelectSeq(IF ts THEN sessionRoot ELSE glob(sessionRoot), IsDirEntry)
            name == sessionFileName(call.sessionId)
            IdOf(k) ==
                IF \E n \in 1..Len(projectDirs[k].entries) :
                       projectDirs[k].entries[n].name = name
                THEN Field(safeReadJson(entryOf(projectDirs[k].entries, name)), "projectID")
                ELSE Undefined
            yielding == {k \in 1..Len(projectDirs) : isString(IdOf(k)) /\ IdOf(k).val # <<>>}
            returned == IF ts THEN (IF call.ret = Null THEN <<>> ELSE call.ret.val)
                        ELSE call.ret
        IN IF yielding = {} THEN returned = <<>>
           ELSE returned = IdOf(FirstIdx(yielding)).val

(***************************************************************************)
(* The claims about the resolvers                                          *)
(***************************************************************************)
\* The session directories that hold <msgId>.json.
Containing(msgId) ==
    {k \in 1..Len(SessionDirs) :
        \E n \in 1..Len(SessionDirs[k].entries) :
            SessionDirs[k].entries[n].name = msgId \o DotJson}

\* The session id a message file in a directory stands for: its sessionID field
\* when it has one, the directory's name otherwise.
SessionIdIn(k, msgId) ==
    LET sessionID == Field(safeReadJson(entryOf(SessionDirs[k].entries, msgId \o DotJson)),
                           "sessionID")
    IN IF isString(sessionID) THEN sessionID.val ELSE SessionDirs[k].name

\* C21: projectIdFromMessage returns nothing when no session directory holds
\* <messageId>.json; otherwise it returns projectIdFromSession of the session id
\* that the file in a most recently modified such directory stands for.
C21_ProjectOfMostRecentHolder ==
    call.op \in {"getProjectIdFromMessage", "_get_project_id_from_message"} =>
        LET ts == call.op = "getProjectIdFromMessage"
            msgId == call.messageId
            returned == IF ts THEN (IF call.ret = Null THEN <<>> ELSE call.ret.val)
                        ELSE call.ret
            OfSession(sessionId) ==
                IF ts THEN (IF getProjectIdFromSession(sessionId) = Null THEN <<>>
                            ELSE getProjectIdFromSession(sessionId).val)
                ELSE _get_project_id_from_session(sessionId)
        IN IF Containing(msgId) = {} THEN returned = <<>>
           ELSE \E k \in Containing(msgId) :
                   /\ \A j \in Containing(msgId) : SessionDirs[k].mtime >= SessionDirs[j].mtime
                   /\ returned = OfSession(SessionIdIn(k, msgId))

\* The session files projectDirectory looks at: the .json files of the
\* subdirectory named as the project when it has any, else those of every
\* subdirectory, in enumeration order.
Considered(projectId) ==
    LET own == {k \in 1..Len(sessionRoot) :
                   sessionRoot[k].name = projectId /\ sessionRoot[k].kind = "dir"}
        ownFiles == IF own = {} THEN <<>>
                    ELSE SelectSeq(sessionRoot[FirstIdx(own)].entries, IsJsonFile)
    IN IF ownFiles # <<>> THEN ownFiles
       ELSE jsonFilesOfAll(SelectSeq(sessionRoot, IsDirEntry))

\* C22 as stated: projectDirectory returns the directory field of the first
\* considered file whose projectID is the project, and nothing when there is no
\* such file or that field is not a non-empty string.
C22_DirectoryOfFirstMatch ==
    call.op = "getProjectDirectory" =>
        LET files == Considered(call.messageId)
            matches == {k \in 1..Len(files) :
                           Field(safeReadJson(files[k]), "projectID") = Str(call.messageId)}
            directory == Field(safeReadJson(files[FirstIdx(matches)]), "directory")
        IN IF matches = {} THEN call.ret = Null
           ELSE IF isString(directory) /\ directory.val # <<>> THEN call.ret = directory
           ELSE call.ret = Null

\* C22 amended: projectDirectory returns the directory field of the first
\* considered file whose projectID is the project and whose directory field is a
\* string, the empty string included, passing over matching files without one;
\* it returns nothing when no considered file is such a file.
C22_DirectoryOfFirstStringMatch ==
    call.op = "getProjectDirectory" =>
        LET files == Considered(call.messageId)
            good == {k \in 1..Len(files) :
                        /\ Field(safeReadJson(files[k]), "projectID") = Str(call.messageId)
                        /\ isString(Field(safeReadJson(files[k]), "directory"))}
        IN IF good = {} THEN call.ret = Null
           ELSE call.ret = Field(safeReadJson(files[FirstIdx(good)]), "directory")

\* A project without a subdirectory of its own, found in another project's.
C22_Witness ==
    /\ call.op = "getProjectDirectory"
    /\ call.messageId = P1
    /\ \A k \in 1..Len(sessionRoot) : sessionRoot[k].name # P1
    /\ call.ret = Str(DirP)

\* The part directory of a message as the storage holds it, if any.
PartDirs(msgId) == SelectSeq(partRoot, LAMBDA e : e.name = msgId /\ e.kind = "dir")

\* C23 as stated: patchHash returns the hash field of the first .json part, in
\* enumeration order, whose type is "patch", and nothing when there is none or
\* the part directory is missing or may not be read.
C23_HashOfFirstPatchPart ==
    call.op = "getPatchHash" =>
        LET parts == IF PartDirs(call.messageId) = <<>> THEN <<>>
                     ELSE IF ~PartDirs(call.messageId)[1].readable THEN <<>>
                     ELSE SelectSeq(PartDirs(call.messageId)[1].entries, IsJsonFile)
            typed == {k \in 1..Len(parts) :
                         Field(safeReadJson(parts[k]), "type") = Str(PatchType)}
        IN IF typed = {} THEN call.ret = Null
           ELSE call.ret = Field(safeReadJson(parts[FirstIdx(typed)]), "hash")

\* C23 amended: patchHash returns the hash field of the first .json part, in
\* enumeration order, whose type is "patch" and whose hash is a string; other
\* parts, patch parts without a string hash and malformed files are passed
\* over; it returns nothing when there is no such part or the part directory is
\* missing, may not be read, or may not be searched.
C23_HashOfFirstPatchPartWithHash ==
    call.op = "getPatchHash" =>
        LET parts == IF PartDirs(call.messageId) = <<>> THEN <<>>
                     ELSE IF ~PartDirs(call.messageId)[1].readable THEN <<>>
                     ELSE IF ~PartDirs(call.messageId)[1].searchable THEN <<>>
                     ELSE SelectSeq(PartDirs(call.messageId)[1].entries, IsJsonFile)
            typed == {k \in 1..Len(parts) :
                         /\ Field(safeReadJson(parts[k]), "type") = Str(PatchType)
                         /\ isString(Field(safeReadJson(parts[k]), "hash"))}
        IN IF typed = {} THEN call.ret = Null
           ELSE call.ret = Field(safeReadJson(parts[FirstIdx(typed)]), "hash")

\* The hash of the fourth part, after a malformed file, a patch part without a
\* string hash and a tool part.
C23_Witness ==
    /\ call.op = "getPatchHash"
    /\ call.messageId = M1
    /\ Len(PartDirs(M1)) = 1
    /\ Len(PartDirs(M1)[1].entries) = 4
    /\ ~PartDirs(M1)[1].entries[1].valid
    /\ call.ret = Str(H1)

\* The directory a listing was asked for, as the storage holds it, if any.
ListedDirs ==
    IF call.op = "listMessageFiles"
    THEN SelectSeq(messageRoot, LAMBDA e : e.name = call.sessionId /\ e.kind = "dir")
    ELSE IF call.op = "listPartFiles" THEN PartDirs(call.messageId)
    ELSE <<[Dir(<<>>, 1, messageRoot) EXCEPT !.entries = messageRoot]>>

OfListedKind(e) ==
    IF call.op = "listSessionDirectories" THEN e.kind = "dir" ELSE e.kind = "file"

IsListing == call.op \in {"listSessionDirectories", "listMessageFiles", "listPartFiles"}

\* C24 as stated: a listing is empty when its directory is missing or may not
\* be read, and holds every entry of the requested kind of a directory that may
\* be read.
C24_ListingEmptyOrComplete ==
    IsListing =>
        IF ListedDirs = <<>> THEN call.ret.val = <<>>
        ELSE IF ~ListedDirs[1].readable THEN call.ret.val = <<>>
        ELSE call.ret.val = SelectSeq(ListedDirs[1].entries, OfListedKind)

\* C24 amended: a listing is empty when its directory is missing, may not be
\* read, or holds an entry of the requested kind whose status cannot be taken
\* (a directory that may be read but not searched); otherwise it holds every
\* entry of the requested kind, in enumeration order.
C24_ListingEmptyOrCompleteWhenStatable ==
    IsListing =>
        IF ListedDirs = <<>> THEN call.ret.val = <<>>
        ELSE IF ~ListedDirs[1].readable THEN call.ret.val = <<>>
        ELSE IF ~ListedDirs[1].searchable THEN call.ret.val = <<>>
        ELSE call.ret.val = SelectSeq(ListedDirs[1].entries, OfListedKind)

\* The part files of a message, the one that is no .json file included.
C24_Witness ==
    /\ call.op = "listPartFiles"
    /\ call.messageId = M1
    /\ Len(call.ret.val) = 3
    /\ \E k \in 1..3 : ~IsJsonName(call.ret.val[k])

\* The titles the session files named for the session record, across projects.
RecordedTitles(sessionId) ==
    LET titlesIn(p) ==
            {Field(safeReadJson(sessionRoot[p].entries[n]), "title") :
                n \in {n \in 1..Len(sessionRoot[p].entries) :
                          sessionRoot[p].entries[n].name = sessionFileName(sessionId)}}
    IN {t \in UNION {titlesIn(p) : p \in 1..Len(sessionRoot)} :
           isString(t) /\ t.val # NoTitle}

Min(a, b) == IF a < b THEN a ELSE b

\* C25: the listing of recent sessions with limit L holds min(L, N) of the N
\* ses_* directories, none twice, newest first, every directory left out no newer
\* than any listed; each with the number of .json files of its directory and a
\* recorded title, "(no title)" when none is recorded.
C25_MostRecentSessions ==
    call.op = "getRecentSessions" =>
        /\ Len(call.ret) = Min(call.limit, Len(SessionDirs))
        /\ \A i, j \in 1..Len(call.ret) :
              i < j => /\ call.ret[i].id # call.ret[j].id
                       /\ call.ret[i].modified >= call.ret[j].modified
        /\ \A i \in 1..Len(call.ret) :
              \E k \in 1..Len(SessionDirs) :
                 /\ SessionDirs[k].name = call.ret[i].id
                 /\ SessionDirs[k].mtime = call.ret[i].modified
                 /\ call.ret[i].messageCount
                       = Cardinality({n \in 1..Len(SessionDirs[k].entries) :
                                         IsJsonFile(SessionDirs[k].entries[n])})
                 /\ IF RecordedTitles(call.ret[i].id) = {}
                    THEN call.ret[i].title = NoTitle
                    ELSE Str(call.ret[i].title) \in RecordedTitles(call.ret[i].id)
        /\ \A k \in 1..Len(SessionDirs) :
              (\A i \in 1..Len(call.ret) : call.ret[i].id # SessionDirs[k].name)
                 => \A i \in 1..Len(call.ret) : SessionDirs[k].mtime <= call.ret[i].modified

\* The newest session alone, enumerated after an older one, with its two
\* messages and its recorded title.
C25_Witness ==
    /\ call.op = "getRecentSessions"
    /\ call.limit = 1
    /\ Len(call.ret) = 1
    /\ call.ret[1].id = SesB
    /\ call.ret[1].messageCount = 2
    /\ call.ret[1].title = SesB
    /\ SessionMtime(SesA) < SessionMtime(SesB)

\* The messages a run ends with: applied, rejected or cancelled, failed.
Applied == {"reverted"}
Rejected == {"usage", "invalid message id", "no file changes", "no project id",
             "no snapshot directory", "no project directory", "hash not in snapshot",
             "file not modified in message", "no changes to revert", "cancelled"}
Failed == {"failed to compute diff", "failed to apply"}
Outcomes == {i \in DOMAIN run.log : run.log[i] \in Applied \cup Rejected \cup Failed}

\* C26: a run has no outcome until it ends and exactly one, its last message,
\* when it has ended; between its start and its end it can always take its next
\* step without anyone's help, except at the prompt; and every run that was
\* started ends, given that subprocesses return and the prompt is answered.
C26_OneOutcomeEventually ==
    /\ [](IF run.pc = "done" THEN Outcomes = {Len(run.log)} ELSE Outcomes = {})
    /\ [](run.pc \notin {"idle", "prompt", "done"} => ENABLED Proceed)
    /\ (run.pc # "idle") ~> (run.pc = "done")

\* A shell run that was answered y and ended with a failed apply.
C26_Witness ==
    /\ run.variant = "sh" /\ run.pc = "done"
    /\ LastEvent(run) = "failed to apply"
    /\ SaidYes(run.response)
    /\ Events("prompt") # {}

\* C27: for every message that getSessionMessages lists with hasSnapshot,
\* getMessageDiff resolves the project the listing resolved from the session,
\* finds its snapshot directory and finds the hash in it.
C27_ListingAndDiffSameProject ==
    call.op = "getSessionMessages" =>
        \A i \in 1..Len(call.ret) :
            call.ret[i].hasSnapshot =>
                LET projectId == getProjectIdFromMessage(call.ret[i].id)
                IN /\ projectId = getProjectIdFromSession(call.sessionId)
                   /\ Truthy(projectId)
                   /\ existsSync(join(RootDir(snapshotRoot), projectId.val))
                   /\ gitCatFileExists(projectId.val, call.ret[i].hash)

\* C28: over the storage a fileHistory call ran on, getMessageDiff of each entry's
\* message and the path asked for returns a diff.
C28_EntriesRetrievable ==
    call.op = "getFileHistory" =>
        \A i \in 1..Len(call.ret) :
            getMessageDiff(call.ret[i].messageId, call.filePath).ret # Null

\* C29: whichever variant resolved a message to its project, the other variant
\* resolves it over the same storage to the same project id, or both yield none.
C29_VariantsResolveSameProject ==
    call.op \in {"getProjectIdFromMessage", "_get_project_id_from_message"} =>
        LET ts == getProjectIdFromMessage(call.messageId)
            sh == _get_project_id_from_message(call.messageId)
        IN /\ call.ret = (IF call.op = "getProjectIdFromMessage" THEN ts ELSE sh)
           /\ IF Truthy(ts) THEN sh = ts.val ELSE sh = <<>>

\* Both runs showed the same diff, so each computed it before the other wrote,
\* both were answered y or Y, and both have ended.
BothConfirmed ==
    /\ \A i \in Peer : peers[i].pc = "done" /\ SaidYes(peers[i].response)
    /\ peers[1].shown = peers[2].shown
    /\ peers[1].shown # <<>>

\* C30: of two runs that showed the same diff and were both confirmed, at most
\* one reports success, and the working tree is what one revert of the diff
\* shown makes of the tree the runs started on.
C30_NotRevertedTwice ==
    BothConfirmed =>
        /\ Cardinality({i \in Peer : peers[i].log[Len(peers[i].log)] = "reverted"}) <= 1
        /\ dirs[peers[1].projectDir].tree
              = reverseApplied(peers[1].shown, WorkTrees(Edited)[peers[1].projectDir].tree)

====
